---- MODULE Spec2Model ----
(***************************************************************************)
(* Model of the fedoraQA operator scripts.                                 *)
(*                                                                         *)
(*   script/tft-wait.py                       fetch_api_data,              *)
(*                                            wait_for_completion          *)
(*   script/report_results_noninteractiveNEW.py                            *)
(*                                            fetch_and_cache_xunit_xml    *)
(*                                                                         *)
(* Every script is one single-threaded process.  A step of the model is    *)
(* one HTTP GET, one time.sleep, or the straight-line code between two of  *)
(* them.  Time is the sum of the sleeps performed (the variable now).      *)
(***************************************************************************)
EXTENDS Integers, Sequences, FiniteSets, TLC

(***************************************************************************)
(* Bounds of the model.                                                    *)
(***************************************************************************)
\* --deadline-hours is a float; the model draws it in hundredths of an hour.
MaxDeadlineHundredths == 2
\* --check-interval is an int; the model draws it from 1..MaxCheckInterval.
MaxCheckInterval == 12
\* max_retries of a direct fetch_api_data call is drawn from -1..MaxRetriesArg.
MaxRetriesArg == 4
\* retry_interval of a direct fetch_api_data call is drawn from 1..MaxRetryIntervalArg.
MaxRetryIntervalArg == 2

\* The number of fetch_and_cache_xunit_xml calls made with one cache.
MaxCalls == 2

(***************************************************************************)
(* Program constants.                                                      *)
(***************************************************************************)
\* def fetch_api_data(api_url, max_retries=3, retry_interval=10)
DefaultMaxRetries == 3
DefaultRetryInterval == 10
\* deadline_seconds = deadline_hours * 3600
SecondsPerHour == 3600
\* def fetch_and_cache_xunit_xml(api_url, max_retries=3, retry_interval=10, cache=None)
XunitDefaultMaxRetries == 3
XunitDefaultRetryInterval == 10

VARIABLES
    \* ---- the installed requests library -------------------------------
    json_error_is_request_exc,  \* requests >= 2.27: response.json() raises a
                                \* RequestException subclass; older: ValueError
    \* ---- the clock ----------------------------------------------------
    now,                \* time.time() as tft-wait.py reads it, seconds: the sum
                        \* of all sleeps of that process so far
    \* ---- fetch_api_data (tft-wait.py) -----------------------------------
    f_pc,               \* "idle" | "request" | "sleep" | "returned" | "raised"
    f_max_retries,      \* argument max_retries
    f_retry_interval,   \* argument retry_interval
    f_attempt,          \* loop variable attempt (0: the loop body never ran)
    f_resp,             \* the response of the last requests.get
    f_result,           \* the value returned (a JSON value, or NoValue)
    f_exc,              \* the exception raised ("none" when it returned)
    f_start,            \* the clock when the call began
    \* ---- wait_for_completion (tft-wait.py) ------------------------------
    w_pc,               \* "off" | "top" | "poll" | "final" | "sleep" | "done"
    check_interval,     \* argument check_interval
    deadline_hundredths,\* argument deadline_hours, in hundredths of an hour
    start_time,         \* local start_time
    elapsed,            \* local elapsed
    w_ret,              \* the returned tuple (final_state, elapsed)
    w_final_calls,      \* fetch_api_data calls begun since the deadline was seen
    \* ---- fetch_and_cache_xunit_xml (report_results_noninteractiveNEW.py) --
    x_pc,               \* "off" | "idle" | "status_request" | "status_sleep"
                        \*   | "xunit_request" | "xunit_sleep" | "returned" | "raised"
    x_url,              \* argument api_url
    x_max_retries,      \* argument max_retries
    x_retry_interval,   \* argument retry_interval
    x_attempt,          \* loop variable attempt of the retry loop being run
    x_resp,             \* the response of the last requests.get
    x_data,             \* local data: the job-status document
    x_ret,              \* the record returned by the last call
    cache_used,         \* argument cache is a dict (FALSE: cache=None)
    cache,              \* the dict passed as cache: api_url -> record
    gets,               \* instrumented counter: requests.get(api_url) calls per api_url
    calls,              \* instrumented counter: calls of the function per api_url
    \* ---- overall result: get_results (tft-wait.py) and the overall field
    \*      of fetch_and_cache_xunit_xml, applied to one job-status answer ---
    g_data,             \* what the job-status endpoint answers
    g_results,          \* the return value of get_results(api_url)
    g_overall,          \* the 'overall' field of the record of the xunit function
    \* ---- the test-case name of match_qatestcase_with_fmf_plan_name, as a
    \*      function applied once and then to its own result ---------------
    n_qatestcase,       \* argument qatestcase, a sequence of characters
    n_name,             \* testcase_name computed from n_qatestcase
    n_again,            \* testcase_name computed from n_name
    \* ---- match_qatestcase_with_fmf_plan_name --------------------------
    m_pc,               \* "off" | "name" | "loop" | "returned"
    m_xunit_data,       \* argument xunit_data: its xunit_xml_root
    m_qatestcase,       \* argument qatestcase
    m_tag,              \* argument fmf_plan_name_tag
    m_i,                \* position of the loop in root.findall('.//testsuite')
    testcase_name,      \* local testcase_name
    qatestcase_found,   \* local qatestcase_found
    fmf_plan_name_found,\* local fmf_plan_name_found
    matching_test_plans,\* local matching_test_plans
    testcase_result,    \* local testcase_result
    m_ret,              \* the returned dict
    \* ---- the wiki writers: modify_testcase_result (NEW script) and
    \*      report_testcase_list / report_result (older script) ------------
    wiki_username,      \* wiki.username
    page_envs,          \* the environment columns of the rows, in key order
    page_results,       \* per row and column: the existing results
    script,             \* which script runs: "off" | "NEW" | "old"
    r_pc,               \* "off" | "find" | "env" | "add" | "returned"
                        \*   | "raised" | "exited"
    environment,        \* argument environment
    comment,            \* argument comment
    allow_duplicate,    \* argument allow_duplicate
    sections,           \* argument sections (NEW) / section (old)
    try_mode,           \* argument try_mode (old)
    testcase_list,      \* argument testcase_list (old); <<qatestcase>> (NEW)
    r_i,                \* position of report_testcase_list in its list
    test,               \* local test: a row of the page (0: None)
    env,                \* local env
    reported,           \* local reported of report_testcase_list
    failed,             \* local failed of report_testcase_list
    written,            \* the page.add_result calls made, in order
    r_out,              \* how the call ended: return value, exception or exit
    \* ---- main of tft-wait.py ----------------------------------------
    d_pc,               \* "off" | "request" | "waiting" | "exited"
    result_url,         \* local result_url: Unset, "None" or "url"
    printed_final_state,\* the state of the printed final_state= line
    printed_results,    \* the value of the printed results= line
    exit_code,          \* the exit status of the process (-1: running)
    \* ---- main of the reporting scripts ------------------------------
    p_pc,               \* "off" | "start" | "loop" | "matching" | "after"
                        \*   | "modify" | "ended" | "raised"
    arg_sections,       \* --sections: the filter (NEW), the list (old)
    arg_comment,        \* --comment
    xunit_artifacts_url,\* xunit_data['artifacts_url']
    testcases,          \* the list get_testcases returned
    p_i,                \* position of the loop of main
    match_result,       \* local match_result (NoMatchResult: not bound)
    wiki_status,        \* local wiki_status
    comment_added,      \* local comment_added
    modified,           \* the test cases modify_testcase_result was called for
    \* ---- get_image_names_for_version (get_image_names.py) -----------
    i_pc,               \* "off" | "loop" | "returned"
    i_version,          \* argument version
    i_topics,           \* per queried topic: what query_datagrepper returns
    i_t,                \* position among the topics
    i_k,                \* position among the messages of the topic
    latest_image_name,  \* local latest_image_name
    latest_timestamp,   \* local latest_timestamp
    i_ret               \* the returned list

fetchVars == <<f_pc, f_max_retries, f_retry_interval, f_attempt, f_resp,
               f_result, f_exc, f_start>>
waitVars  == <<w_pc, check_interval, deadline_hundredths, start_time, elapsed,
               w_ret, w_final_calls>>
xunitVars == <<x_pc, x_url, x_max_retries, x_retry_interval, x_attempt, x_resp,
               x_data, x_ret, cache_used, cache, gets, calls>>
overallVars == <<g_data, g_results, g_overall>>
normVars == <<n_qatestcase, n_name, n_again>>
matchVars == <<m_pc, m_xunit_data, m_qatestcase, m_tag, m_i, testcase_name,
               qatestcase_found, fmf_plan_name_found, matching_test_plans,
               testcase_result, m_ret>>
\* The variables of the functions modelled after fetch_and_cache_xunit_xml.
wikiVars == <<wiki_username, page_envs, page_results, script, r_pc,
              environment, comment, allow_duplicate, sections, try_mode,
              testcase_list, r_i, test, env, reported, failed, written, r_out>>
mainVars == <<d_pc, result_url, printed_final_state, printed_results, exit_code>>
reportVars == <<p_pc, arg_sections, arg_comment, xunit_artifacts_url, testcases, p_i,
                match_result, wiki_status, comment_added, modified>>
imageVars == <<i_pc, i_version, i_topics, i_t, i_k, latest_image_name,
               latest_timestamp, i_ret>>
otherVars == <<overallVars, normVars, matchVars, wikiVars, mainVars, reportVars,
               imageVars>>
vars == <<json_error_is_request_exc, now, fetchVars, waitVars, xunitVars,
          otherVars>>
pollVars == <<json_error_is_request_exc, now, fetchVars, waitVars, xunitVars>>
\* What the steps of one of these functions leave alone.
notOverallVars == <<pollVars, normVars, matchVars, wikiVars, mainVars,
  reportVars, imageVars>>
notNormVars == <<pollVars, overallVars, matchVars, wikiVars, mainVars,
  reportVars, imageVars>>
notMatchVars == <<pollVars, overallVars, normVars, wikiVars, mainVars,
  reportVars, imageVars>>
notWikiVars == <<pollVars, overallVars, normVars, matchVars, mainVars,
  reportVars, imageVars>>
notMainVars == <<overallVars, normVars, matchVars, wikiVars, xunitVars,
                 json_error_is_request_exc, reportVars, imageVars>>
notReportVars == <<pollVars, overallVars, normVars, mainVars, imageVars>>
notImageVars == <<pollVars, overallVars, normVars, matchVars, wikiVars,
                  mainVars, reportVars>>

(***************************************************************************)
(* The job-status endpoint.                                                *)
(***************************************************************************)
\* Values of the "state" field of a job-status document; "absent": no such key.
NonTerminalStates == {"queued", "running"}
SuccessStates     == {"complete"}
FailureStates     == {"error", "failed", "cancelled"}
JobStates         == NonTerminalStates \cup SuccessStates \cup FailureStates
Absent            == "absent"

\* What one requests.get of the job-status URL can meet:
\*   conn_fail   the connection fails                 (RequestException)
\*   http_error  a non-2xx status, raise_for_status() (HTTPError, a RequestException)
\*   bad_json    2xx, the body is not JSON, response.json() raises
\*   nondict     2xx, the body is JSON but not an object (a list, a number)
\*   dict        2xx, a JSON object with or without the key "state"
StatusResponses ==
    [kind : {"conn_fail", "http_error", "bad_json", "nondict"}, state : {Absent}]
      \cup [kind : {"dict"}, state : JobStates \cup {Absent}]

NoResponse == [kind |-> "none", state |-> Absent]
\* The function fell off its end without a return statement (Python's None).
NoValue    == [kind |-> "novalue", state |-> Absent]

\* The exception class a response makes the try block of fetch_api_data raise.
ResponseException(resp) ==
    CASE resp.kind \in {"conn_fail", "http_error"} -> "RequestException"
      [] resp.kind = "bad_json" ->
            IF json_error_is_request_exc THEN "RequestException" ELSE "ValueError"
      [] OTHER -> "none"

(***************************************************************************)
(* fetch_api_data                                                          *)
(***************************************************************************)
\* The call: for attempt in range(1, max_retries + 1).  An empty range skips
\* the loop and the function returns None.
FetchEnter(max_retries, retry_interval) ==
    /\ f_max_retries' = max_retries
    /\ f_retry_interval' = retry_interval
    /\ f_resp' = NoResponse
    /\ f_exc' = "none"
    /\ f_result' = NoValue
    /\ f_start' = now
    /\ IF max_retries >= 1
         THEN f_pc' = "request" /\ f_attempt' = 1
         ELSE f_pc' = "returned" /\ f_attempt' = 0

\* except requests.exceptions.RequestException: if attempt < max_retries
FetchMayRetryOffByOne == f_attempt <= f_max_retries
FetchMayRetry == f_attempt < f_max_retries

\* One pass of the try block: requests.get, raise_for_status, response.json().
FetchRequest ==
    /\ f_pc = "request"
    /\ \E resp \in StatusResponses :
         /\ f_resp' = resp
         /\ CASE ResponseException(resp) = "none" ->
                   /\ f_pc' = "returned"
                   /\ f_result' = resp
                   /\ f_exc' = "none"
              [] ResponseException(resp) = "RequestException" ->
                   /\ f_result' = NoValue
                   /\ IF FetchMayRetry
                        THEN f_pc' = "sleep" /\ f_exc' = "none"
                        ELSE f_pc' = "raised" /\ f_exc' = "RequestException"
              [] OTHER ->
                   \* not a RequestException: no handler in fetch_api_data
                   /\ f_result' = NoValue
                   /\ f_pc' = "raised"
                   /\ f_exc' = ResponseException(resp)
    /\ UNCHANGED <<otherVars, json_error_is_request_exc, now, f_max_retries,
                   f_retry_interval, f_attempt, f_start, waitVars, xunitVars>>

\* time.sleep(retry_interval), then the next attempt.
FetchSleep ==
    /\ f_pc = "sleep"
    /\ now' = now + f_retry_interval
    /\ f_attempt' = f_attempt + 1
    /\ f_pc' = "request"
    /\ UNCHANGED <<otherVars, json_error_is_request_exc, f_max_retries, f_retry_interval,
                   f_resp, f_result, f_exc, f_start, waitVars, xunitVars>>

\* A direct call fetch_api_data(url, max_retries, retry_interval).
FetchCall ==
    /\ f_pc = "idle"
    /\ w_pc = "off"
    /\ \E mr \in -1..MaxRetriesArg, ri \in 1..MaxRetryIntervalArg :
         FetchEnter(mr, ri)
    /\ UNCHANGED <<otherVars, json_error_is_request_exc, now, waitVars, xunitVars>>

(***************************************************************************)
(* wait_for_completion                                                     *)
(***************************************************************************)
\* deadline_seconds = deadline_hours * 3600
DeadlineSeconds == (deadline_hundredths * SecondsPerHour) \div 100

\* if elapsed >= deadline_seconds
DeadlineReachedStrict(e) == e > DeadlineSeconds
DeadlineReached(e) == e >= DeadlineSeconds

\* data.get('state', 'unknown'); data is a JSON object here.
GetState(data) == IF data.state = Absent THEN "unknown" ELSE data.state

\* The try block "data = fetch_api_data(api_url); state = data.get(...)" ran
\* to its end: the call returned and the value has a .get taking a default.
TryFetchedState == f_pc = "returned" /\ f_result.kind = "dict"

\* The exception the try block ends with otherwise: the one fetch_api_data
\* raised, or the AttributeError of .get on a value that is no JSON object.
TryException == IF f_pc = "raised" THEN f_exc ELSE "AttributeError"

NoReturn == [state |-> "none", elapsed |-> 0]
Return(state, e) == [state |-> state, elapsed |-> e]

\* if state == 'complete' ... elif state in ['error', 'failed', 'cancelled']
IsTerminalAnyState(state) == TRUE
IsTerminalNoCancelled(state) == state = "complete" \/ state \in {"error", "failed"}
IsTerminal(state) == state = "complete" \/ state \in {"error", "failed", "cancelled"}

\* except requests.exceptions.RequestException: warn, sleep, poll again
PollSwallowsNothing(exc) == FALSE
PollSwallows(exc) == exc = "RequestException"

\* The state the deadline branch returns: the one just fetched, or 'timeout'
\* from "except Exception".
FinalStateAlwaysTimeout == "timeout"
FinalState == IF TryFetchedState THEN GetState(f_result) ELSE "timeout"

\* while True: elapsed = time.time() - start_time; if elapsed >= deadline_seconds;
\* then the call of fetch_api_data(api_url) of the branch taken.
WaitLoopTop ==
    /\ w_pc = "top"
    /\ elapsed' = now - start_time
    /\ IF DeadlineReached(elapsed')
         THEN w_pc' = "final" /\ w_final_calls' = w_final_calls + 1
         ELSE w_pc' = "poll" /\ w_final_calls' = w_final_calls
    /\ FetchEnter(DefaultMaxRetries, DefaultRetryInterval)
    /\ UNCHANGED <<otherVars, json_error_is_request_exc, now, check_interval,
                   deadline_hundredths, start_time, w_ret, xunitVars>>

\* The deadline branch after its fetch: return (final_state, elapsed), or
\* ('timeout', elapsed) from "except Exception".
WaitFinalResult ==
    /\ w_pc = "final"
    /\ f_pc \in {"returned", "raised"}
    /\ w_pc' = "done"
    /\ w_ret' = Return(FinalState, elapsed)
    /\ UNCHANGED <<otherVars, json_error_is_request_exc, now, fetchVars, check_interval,
                   deadline_hundredths, start_time, elapsed, w_final_calls, xunitVars>>

\* The poll branch after its fetch.
WaitPollResult ==
    /\ w_pc = "poll"
    /\ f_pc \in {"returned", "raised"}
    /\ IF TryFetchedState
         THEN IF IsTerminal(GetState(f_result))
                THEN w_pc' = "done" /\ w_ret' = Return(GetState(f_result), elapsed)
                ELSE w_pc' = "sleep" /\ w_ret' = w_ret
         ELSE IF PollSwallows(TryException)
                THEN w_pc' = "sleep" /\ w_ret' = w_ret
                \* except Exception: return ('error', elapsed)
                ELSE w_pc' = "done" /\ w_ret' = Return("error", elapsed)
    /\ UNCHANGED <<otherVars, json_error_is_request_exc, now, fetchVars, check_interval,
                   deadline_hundredths, start_time, elapsed, w_final_calls, xunitVars>>

\* time.sleep(check_interval), then the next iteration.
WaitSleepRetryInterval ==
    /\ w_pc = "sleep"
    /\ now' = now + DefaultRetryInterval
    /\ w_pc' = "top"
    /\ UNCHANGED <<otherVars, json_error_is_request_exc, fetchVars, check_interval,
                   deadline_hundredths, start_time, elapsed, w_ret, w_final_calls,
                   xunitVars>>
WaitSleep ==
    /\ w_pc = "sleep"
    /\ now' = now + check_interval
    /\ w_pc' = "top"
    /\ UNCHANGED <<otherVars, json_error_is_request_exc, fetchVars, check_interval,
                   deadline_hundredths, start_time, elapsed, w_ret, w_final_calls,
                   xunitVars>>

(***************************************************************************)
(* fetch_and_cache_xunit_xml                                               *)
(***************************************************************************)
ApiUrls   == {"api1", "api2"}
XunitUrls == {"xunit1"}

\* Values of result.overall in a job-status document ("null": JSON null).
Overalls == {Absent, "null", "passed", "failed", "error"}
\* The values the modelled endpoint answers with: a missing key, a value that
\* is normalised and one that is kept.
EndpointOveralls == {Absent, "passed", "error"}

\* What one requests.get(api_url) can meet.  A JSON object is described by
\* its keys: result (absent, null or an object with overall and xunit_url)
\* and run (absent, null or an object with artifacts).
XStatusFailure(kind) ==
    [kind |-> kind, result |-> Absent, overall |-> Absent, xunit_url |-> Absent,
     run |-> Absent, artifacts |-> Absent]
XStatusResponses ==
    {XStatusFailure(k) : k \in {"conn_fail", "http_error", "bad_json", "nondict"}}
      \cup { [kind |-> "dict", result |-> r[1], overall |-> r[2], xunit_url |-> r[3],
              run |-> a[1], artifacts |-> a[2]] :
               r \in ({<<Absent, Absent, Absent>>, <<"null", Absent, Absent>>}
                        \cup ({"dict"} \X EndpointOveralls \X ({Absent} \cup XunitUrls))),
               a \in {<<Absent, Absent>>, <<"null", Absent>>,
                      <<"dict", "artifacts1">>} }
NoStatus == XStatusFailure("none")

\* A <testsuite> element: its name attribute as the sequence of its path
\* elements (<<>>: no name attribute, or an empty one) and its result attribute.
Suite(name, result) == [name |-> name, result |-> result]
XmlDocs ==
    { <<Suite(<<"plans", "cloud", "Testcase_base_startup">>, "passed")>>,
      <<Suite(<<"plans", "cloud", "Testcase_base_startup">>, "failed"),
        Suite(<<>>, "passed"),
        Suite(<<"plans", "other", "Testcase_base_startup">>, "passed")>> }

\* What one requests.get(xunit_url) can meet: a failure, a body that is not
\* well-formed XML, or a document given by its testsuite elements in order.
XmlResponses ==
    [kind : {"conn_fail", "http_error", "malformed"}, suites : {<<>>}]
      \cup [kind : {"xml"}, suites : XmlDocs]

\* The parsed document kept in the record; xunit_xml_root = None is NoRoot.
NoRoot == [parsed |-> FALSE, suites |-> <<>>]
Root(doc) == [parsed |-> TRUE, suites |-> doc]

Record(overall, xunit_url, artifacts_url, root, names) ==
    [overall |-> overall, xunit_url |-> xunit_url, artifacts_url |-> artifacts_url,
     xunit_xml_root |-> root, test_plan_names |-> names]
NoRecord == Record("none", "", "", NoRoot, <<>>)

\* The record of the two outer except clauses.
PlaceholderRecord == Record("warn", "", "", NoRoot, <<>>)

\* overall = result_data.get('overall', 'warn'), then 'passed' -> 'pass' and
\* 'failed' -> 'fail'.
XOverall(data) ==
    LET overall == IF data.overall = Absent THEN "warn" ELSE data.overall
    IN  IF overall = "passed" THEN "pass"
        ELSE IF overall = "failed" THEN "fail" ELSE overall

\* xunit_url = result_data.get('xunit_url', '')
XXunitUrl(data) == IF data.xunit_url = Absent THEN "" ELSE data.xunit_url

\* artifacts_url = run_data.get('artifacts', '')
XArtifactsUrl(data) == IF data.artifacts = Absent THEN "" ELSE data.artifacts

\* Lines 204-210 raise AttributeError: .get on a value that is no dict.
XProcessRaises(data) ==
    data.kind # "dict" \/ data.result = "null" \/ data.run = "null"

\* for testsuite in root.findall('.//testsuite'): keep the non-empty names.
RECURSIVE TestPlanNames(_)
TestPlanNames(doc) ==
    IF doc = <<>> THEN <<>>
    ELSE IF Head(doc).name # <<>>
           THEN <<Head(doc).name>> \o TestPlanNames(Tail(doc))
           ELSE TestPlanNames(Tail(doc))

\* The record built when there is no report: no xunit_url, or the XML could
\* not be fetched or parsed (the inner except clauses only log).
EmptyReportLosesJobData(data) == PlaceholderRecord
EmptyReportRecord(data) ==
    Record(XOverall(data), XXunitUrl(data), XArtifactsUrl(data), NoRoot, <<>>)

ParsedReportRecord(data, doc) ==
    Record(XOverall(data), XXunitUrl(data), XArtifactsUrl(data), Root(doc),
           TestPlanNames(doc))

\* if cache is not None: cache[api_url] = result
CacheStoreSkipped(c, url, rec) == c
CacheStoreAlone(c, url, rec) == IF cache_used THEN [u \in {url} |-> rec] ELSE c
CacheStore(c, url, rec) ==
    IF cache_used
      THEN [u \in DOMAIN c \cup {url} |-> IF u = url THEN rec ELSE c[u]]
      ELSE c

\* result = {...}; cache it; return result (the locals data and attempt end
\* with the call).
XReturn(url, rec) ==
    /\ x_ret' = rec
    /\ cache' = CacheStore(cache, url, rec)
    /\ x_pc' = "returned"
    /\ x_data' = NoStatus
    /\ x_attempt' = 0

\* The exception leaves the function instead of being caught.
XPropagate(url) ==
    /\ x_ret' = x_ret
    /\ cache' = cache
    /\ x_pc' = "raised"
    /\ x_data' = NoStatus
    /\ x_attempt' = 0
\* except requests.exceptions.RequestException / except Exception: the
\* placeholder is cached and returned.
XReturnPlaceholder(url) == XReturn(url, PlaceholderRecord)

\* The exception class a job-status response makes lines 189-191 raise.
XResponseException(resp) ==
    CASE resp.kind \in {"conn_fail", "http_error"} -> "RequestException"
      [] resp.kind = "bad_json" ->
            IF json_error_is_request_exc THEN "RequestException" ELSE "ValueError"
      [] OTHER -> "none"

CountGet(url) == gets' = [gets EXCEPT ![url] = @ + 1]
TotalCalls == calls["api1"] + calls["api2"]

\* The call, up to the first requests.get: the cache lookup, then the entry
\* of the retry loop (an empty range leaves data unbound: NameError at line
\* 204, caught by "except Exception").
XunitCall ==
    /\ x_pc \in {"idle", "returned"}
    /\ TotalCalls < MaxCalls
    /\ \E url \in ApiUrls :
         /\ x_url' = url
         /\ calls' = [calls EXCEPT ![url] = @ + 1]
         /\ x_resp' = NoStatus
         /\ IF cache_used /\ url \in DOMAIN cache
              THEN /\ x_ret' = cache[url]
                   /\ x_pc' = "returned"
                   /\ UNCHANGED <<x_attempt, x_data, cache>>
              ELSE IF x_max_retries >= 1
                     THEN /\ x_pc' = "status_request"
                          /\ x_attempt' = 1
                          /\ UNCHANGED <<x_ret, x_data, cache>>
                     ELSE XReturnPlaceholder(url)
    /\ UNCHANGED <<otherVars, json_error_is_request_exc, now, fetchVars, waitVars,
                   x_max_retries, x_retry_interval, cache_used, gets>>

\* requests.get(api_url) and what follows it up to the next requests.get,
\* sleep or return.
XStatusRequest ==
    /\ x_pc = "status_request"
    /\ CountGet(x_url)
    /\ \E resp \in XStatusResponses :
         /\ x_resp' = resp
         /\ CASE XResponseException(resp) = "RequestException" ->
                   IF x_attempt < x_max_retries
                     THEN /\ x_pc' = "status_sleep"
                          /\ UNCHANGED <<x_attempt, x_data, x_ret, cache>>
                     ELSE XReturnPlaceholder(x_url)
              [] XResponseException(resp) = "ValueError" ->
                   XReturnPlaceholder(x_url)
              [] OTHER ->
                   IF XProcessRaises(resp)
                     THEN XReturnPlaceholder(x_url)
                     ELSE IF XXunitUrl(resp) # ""
                            THEN /\ x_pc' = "xunit_request"
                                 /\ x_data' = resp
                                 /\ x_attempt' = 1
                                 /\ UNCHANGED <<x_ret, cache>>
                            ELSE XReturn(x_url, EmptyReportRecord(resp))
    /\ UNCHANGED <<otherVars, json_error_is_request_exc, now, fetchVars, waitVars, x_url,
                   x_max_retries, x_retry_interval, cache_used, calls>>

\* time.sleep(retry_interval) of the job-status retry loop.  This script never
\* reads the clock (now is time.time() as wait_for_completion reads it), so
\* the sleep only moves the loop on.
XStatusSleep ==
    /\ x_pc = "status_sleep"
    /\ x_attempt' = x_attempt + 1
    /\ x_pc' = "status_request"
    /\ UNCHANGED <<otherVars, json_error_is_request_exc, now, fetchVars, waitVars, x_url,
                   x_max_retries, x_retry_interval, x_resp, x_data, x_ret,
                   cache_used, cache, gets, calls>>

\* requests.get(xunit_url), ET.fromstring, the testsuite loop, the record.
XXunitRequest ==
    /\ x_pc = "xunit_request"
    /\ \E resp \in XmlResponses :
         /\ x_resp' = [NoStatus EXCEPT !.kind = resp.kind]
         /\ CASE resp.kind \in {"conn_fail", "http_error"} ->
                   IF x_attempt < x_max_retries
                     THEN /\ x_pc' = "xunit_sleep"
                          /\ UNCHANGED <<x_attempt, x_data, x_ret, cache>>
                     ELSE XReturn(x_url, EmptyReportRecord(x_data))
              [] resp.kind = "malformed" ->
                   XReturn(x_url, EmptyReportRecord(x_data))
              [] OTHER ->
                   XReturn(x_url, ParsedReportRecord(x_data, resp.suites))
    /\ UNCHANGED <<otherVars, json_error_is_request_exc, now, fetchVars, waitVars, x_url,
                   x_max_retries, x_retry_interval, cache_used, gets, calls>>

\* time.sleep(retry_interval) of the XUnit retry loop.
XXunitSleep ==
    /\ x_pc = "xunit_sleep"
    /\ x_attempt' = x_attempt + 1
    /\ x_pc' = "xunit_request"
    /\ UNCHANGED <<otherVars, json_error_is_request_exc, now, fetchVars, waitVars, x_url,
                   x_max_retries, x_retry_interval, x_resp, x_data, x_ret,
                   cache_used, cache, gets, calls>>

XunitOff ==
    /\ x_pc = "off"
    /\ x_url = "none"
    /\ x_max_retries = 0
    /\ x_retry_interval = 0
    /\ x_attempt = 0
    /\ x_resp = NoStatus
    /\ x_data = NoStatus
    /\ x_ret = NoRecord
    /\ cache_used = FALSE
    /\ cache = <<>>
    /\ gets = [u \in ApiUrls |-> 0]
    /\ calls = [u \in ApiUrls |-> 0]

(***************************************************************************)
(* Specifications                                                          *)
(***************************************************************************)
\* The value of a variable no function has written yet.
Unset == "unset"

OverallOff ==
    /\ g_data = NoStatus
    /\ g_results = Unset
    /\ g_overall = Unset

NormOff ==
    /\ n_qatestcase = <<>>
    /\ n_name = Unset
    /\ n_again = Unset

\* Python's None as the value of testcase_result.
None == "None"
\* The dict match_qatestcase_with_fmf_plan_name returns.
MatchResult(qfound, pfound, plans, result) ==
    [qatestcase_found |-> qfound, fmf_plan_name_found |-> pfound,
     matching_test_plans |-> plans, testcase_result |-> result]
NoMatchResult == MatchResult(FALSE, FALSE, <<>>, Unset)

MatchOff ==
    /\ m_pc = "off"
    /\ m_xunit_data = NoRoot
    /\ m_qatestcase = <<>>
    /\ m_tag = <<>>
    /\ m_i = 0
    /\ testcase_name = <<>>
    /\ qatestcase_found = FALSE
    /\ fmf_plan_name_found = FALSE
    /\ matching_test_plans = <<>>
    /\ testcase_result = None
    /\ m_ret = NoMatchResult

\* How a call of a wiki writer ended: kind is "none", "returned", "raised"
\* (exc: the exception class, names: the environments its message lists) or
\* "exited" (code: the argument of sys.exit).
\* wiki_url: the value of the key 'wiki_url' of a returned dict, NoWikiUrl
\* when the dict has no such key.
NoWikiUrl == "absent"
Outcome(kind, found, added, exc, names, code) ==
    [kind |-> kind, testcase_found |-> found, result_added |-> added,
     exc |-> exc, names |-> names, code |-> code, wiki_url |-> NoWikiUrl]
NoOutcome == Outcome("none", FALSE, FALSE, "none", <<>>, 0)

WikiOff ==
    /\ wiki_username = <<>>
    /\ page_envs = <<>>
    /\ page_results = <<>>
    /\ script = "off"
    /\ r_pc = "off"
    /\ environment = <<>>
    /\ comment = <<>>
    /\ allow_duplicate = FALSE
    /\ sections = <<>>
    /\ try_mode = FALSE
    /\ testcase_list = <<>>
    /\ r_i = 0
    /\ test = 0
    /\ env = Unset
    /\ reported = <<>>
    /\ failed = <<>>
    /\ written = <<>>
    /\ r_out = NoOutcome

MainOff ==
    /\ d_pc = "off"
    /\ result_url = Unset
    /\ printed_final_state = Unset
    /\ printed_results = Unset
    /\ exit_code = -1

ReportOff ==
    /\ p_pc = "off"
    /\ arg_sections = <<>>
    /\ arg_comment = <<>>
    /\ xunit_artifacts_url = <<>>
    /\ testcases = <<>>
    /\ p_i = 0
    /\ match_result = NoMatchResult
    /\ wiki_status = Unset
    /\ comment_added = FALSE
    /\ modified = <<>>

\* A version: "Rawhide" or a release number.
Version(rawhide, number) == [rawhide |-> rawhide, number |-> number]
\* Python's None as the value of latest_image_name.
NoImageName == <<"None">>

ImageOff ==
    /\ i_pc = "off"
    /\ i_version = Version(FALSE, 0)
    /\ i_topics = <<>>
    /\ i_t = 0
    /\ i_k = 0
    /\ latest_image_name = NoImageName
    /\ latest_timestamp = 0
    /\ i_ret = <<>>

\* None of the functions modelled after fetch_and_cache_xunit_xml is run.
OthersOff ==
    /\ OverallOff
    /\ NormOff
    /\ MatchOff
    /\ WikiOff
    /\ MainOff
    /\ ReportOff
    /\ ImageOff

FetchIdle ==
    /\ f_pc = "idle"
    /\ f_max_retries = 0
    /\ f_retry_interval = 0
    /\ f_attempt = 0
    /\ f_resp = NoResponse
    /\ f_result = NoValue
    /\ f_exc = "none"
    /\ f_start = 0

WaitOff ==
    /\ w_pc = "off"
    /\ check_interval = 0
    /\ deadline_hundredths = 0
    /\ start_time = 0
    /\ elapsed = 0
    /\ w_ret = NoReturn
    /\ w_final_calls = 0

\* wait_for_completion(api_url, check_interval, deadline_hours), up to the
\* first evaluation of the loop: start_time = time.time().
WaitInit ==
    /\ json_error_is_request_exc \in BOOLEAN
    /\ now = 0
    /\ FetchIdle
    /\ w_pc = "top"
    /\ check_interval \in 1..MaxCheckInterval
    /\ deadline_hundredths \in 0..MaxDeadlineHundredths
    /\ start_time = now
    /\ elapsed = 0
    /\ w_ret = NoReturn
    /\ w_final_calls = 0
    /\ XunitOff
    /\ OthersOff

WaitNext ==
    \/ WaitLoopTop
    \/ FetchRequest
    \/ FetchSleep
    \/ WaitFinalResult
    \/ WaitPollResult
    \/ WaitSleep

WaitSpec == WaitInit /\ [][WaitNext]_vars

\* The process is never suspended for ever: a step that can be taken is taken.
FairWaitSpec == WaitInit /\ [][WaitNext]_vars /\ WF_vars(WaitNext)

\* A process that calls fetch_api_data directly.
FetchInit ==
    /\ json_error_is_request_exc \in BOOLEAN
    /\ now = 0
    /\ FetchIdle
    /\ WaitOff
    /\ XunitOff
    /\ OthersOff

FetchNext ==
    \/ FetchCall
    \/ FetchRequest
    \/ FetchSleep

FetchSpec == FetchInit /\ [][FetchNext]_vars

\* A process that makes up to MaxCalls calls of fetch_and_cache_xunit_xml
\* with one cache dict (or with cache=None), the retry arguments fixed.
XunitInit ==
    /\ json_error_is_request_exc \in BOOLEAN
    /\ now = 0
    /\ FetchIdle
    /\ WaitOff
    /\ x_pc = "idle"
    /\ x_url = "none"
    /\ x_max_retries \in 0..XunitDefaultMaxRetries
    /\ x_retry_interval = XunitDefaultRetryInterval
    /\ x_attempt = 0
    /\ x_resp = NoStatus
    /\ x_data = NoStatus
    /\ x_ret = NoRecord
    /\ cache_used \in BOOLEAN
    /\ cache = <<>>
    /\ gets = [u \in ApiUrls |-> 0]
    /\ calls = [u \in ApiUrls |-> 0]
    /\ OthersOff

XunitNext ==
    \/ XunitCall
    \/ XStatusRequest
    \/ XStatusSleep
    \/ XXunitRequest
    \/ XXunitSleep

XunitSpec == XunitInit /\ [][XunitNext]_vars

(***************************************************************************)
(* Properties of wait_for_completion (checked under WaitSpec, FairWaitSpec)*)
(***************************************************************************)
\* The fetch of the current iteration has just reported a terminal state.
ReportedTerminal ==
    /\ f_pc = "returned"
    /\ f_result.kind = "dict"
    /\ f_result.state \in SuccessStates \cup FailureStates

\* The longest time one fetch_api_data(api_url) call of the loop can sleep.
MaxFetchSleep == (DefaultMaxRetries - 1) * DefaultRetryInterval

\* The fetch_api_data call in progress (or just ended) is the first of the run.
FirstFetch == w_pc \in {"poll", "final"} /\ f_start = start_time

\* C1: a fetch that reports 'complete', 'error', 'failed' or 'cancelled' makes
\* wait_for_completion return that state with the elapsed time of the
\* iteration (>= 0), at once: no sleep, no clock advance, and nothing of the
\* loop or of fetch_api_data can run after the return.
C1_TerminalStateReturnsAtOnce ==
    /\ [][ (w_pc \in {"poll", "final"} /\ ReportedTerminal)
             => /\ w_pc' = "done"
                /\ w_ret' = [state |-> f_result.state, elapsed |-> elapsed]
                /\ elapsed >= 0
                /\ now' = now
                /\ f_pc' = "returned" ]_vars
    /\ [](w_pc = "done" => ~ENABLED WaitNext)

C1_Witness ==
    /\ w_pc = "done"
    /\ f_result.kind = "dict" /\ f_result.state = "complete"
    /\ w_ret = [state |-> "complete", elapsed |-> 0]
    /\ now = 0

\* C2 as stated: with an endpoint that never reports a terminal state (and a
\* positive deadline) a loop that has returned a state other than the terminal
\* ones has returned no later than one check_interval after the deadline.
C2_ReturnsWithinOneCheckInterval ==
    (w_pc = "done" /\ ~ReportedTerminal /\ DeadlineSeconds > 0
        /\ w_ret.state \notin SuccessStates \cup FailureStates)
        => now <= DeadlineSeconds + check_interval

\* C2 amended: the loop terminates, and it returns less than one
\* check_interval plus the retry sleeps of two fetch_api_data calls
\* (2 * (3 - 1) * 10 s) after the deadline.
C2_TerminatesWithinIntervalPlusRetrySleeps ==
    /\ [](w_pc = "done" => now < DeadlineSeconds + check_interval + 2 * MaxFetchSleep)
    /\ <>(w_pc = "done")

C2_Witness ==
    /\ w_pc = "done"
    /\ ~ReportedTerminal
    /\ w_ret.state = "timeout"
    /\ DeadlineSeconds > 0
    /\ now = DeadlineSeconds + check_interval + 2 * MaxFetchSleep - 1

\* C3: once the loop sees elapsed >= deadline_seconds it begins exactly one
\* fetch_api_data call, only that call's own steps run until the return, the
\* check_interval sleep and the poll branch are never entered again, and the
\* return carries 'timeout' if the fetch failed and else the fetched state
\* ('unknown' for a document without the key).
C3_DeadlineOneFinalFetch ==
    [][ /\ (w_pc = "top" /\ now - start_time >= DeadlineSeconds)
            => /\ w_pc' = "final"
               /\ w_final_calls' = 1
               /\ f_pc' = "request" /\ f_attempt' = 1
               /\ now' = now
        /\ (w_pc = "final")
            => /\ w_final_calls' = 1
               /\ w_pc' \in {"final", "done"}
               /\ (w_pc' = "final" => f_pc \in {"request", "sleep"}
                                        /\ f_start' = f_start)
               /\ (w_pc' = "done"
                    => /\ f_pc \in {"returned", "raised"}
                       /\ now' = now
                       /\ w_ret'.elapsed = elapsed
                       /\ w_ret'.state =
                            IF f_pc = "raised" \/ f_result.kind # "dict"
                              THEN "timeout"
                              ELSE IF f_result.state = Absent
                                     THEN "unknown" ELSE f_result.state) ]_vars

C3_Witness ==
    /\ w_pc = "done"
    /\ elapsed >= DeadlineSeconds
    /\ DeadlineSeconds > 0
    /\ w_final_calls = 1
    /\ w_ret.state = "running"

\* C4 as stated: when the first status fetch raises the transport error
\* wait_for_completion returns ('error', ~0).
C4_FirstFetchFailureReturnsError ==
    [][ (FirstFetch /\ f_pc = "raised" /\ f_exc = "RequestException")
          => (w_pc' = "done" /\ w_ret'.state = "error" /\ w_ret'.elapsed = 0) ]_vars

\* C4 amended: when the first status fetch raises the transport error,
\* wait_for_completion does not return 'error': before the deadline it keeps
\* running and goes to sleep check_interval (with the deadline already reached,
\* deadline_hours = 0, it returns 'timeout').  ('error', 0) is what the first
\* iteration returns when the fetch ends with any other exception or with a
\* value that is no JSON object.
C4_FirstFetchFailureIsSwallowed ==
    [][ /\ (FirstFetch /\ f_pc = "raised" /\ f_exc = "RequestException")
            => /\ (w_pc = "poll" => w_pc' = "sleep" /\ w_ret' = NoReturn)
               /\ (w_pc = "final" => w_pc' = "done" /\ w_ret'.state = "timeout")
        /\ (FirstFetch /\ w_pc = "poll"
              /\ \/ (f_pc = "raised" /\ f_exc # "RequestException")
                 \/ (f_pc = "returned" /\ f_result.kind # "dict"))
            => (w_pc' = "done" /\ w_ret' = [state |-> "error", elapsed |-> 0]) ]_vars

C4_Witness ==
    /\ w_pc = "sleep"
    /\ f_pc = "raised" /\ f_exc = "RequestException"
    /\ f_start = start_time
    /\ now = MaxFetchSleep
    /\ w_ret = NoReturn

\* C5: before the deadline a transport error of the status fetch never ends
\* the loop: nothing is returned, the loop sleeps check_interval and the next
\* iteration begins a new fetch_api_data call.
C5_TransportFailureIsRetried ==
    [][ /\ (w_pc = "poll" /\ f_pc = "raised" /\ f_exc = "RequestException")
            => (w_pc' = "sleep" /\ w_ret' = NoReturn /\ now' = now)
        /\ (w_pc = "sleep")
            => (w_pc' = "top" /\ now' = now + check_interval /\ w_ret' = NoReturn)
        /\ (w_pc = "top")
            => (w_pc' \in {"poll", "final"} /\ f_pc' = "request"
                  /\ f_attempt' = 1 /\ f_start' = now) ]_vars

C5_Witness ==
    /\ w_pc = "sleep"
    /\ f_pc = "raised" /\ f_exc = "RequestException"
    /\ f_start > start_time
    /\ w_ret = NoReturn

(***************************************************************************)
(* Properties of fetch_api_data (checked under FetchSpec)                  *)
(***************************************************************************)
\* C6: a failed request (connection failure and non-2xx alike) is followed by
\* a sleep of exactly retry_interval and another attempt while attempts are
\* left, and by the transport error on the last attempt (never a sleep after
\* it); a successful attempt returns its JSON at once.  So a call that ended
\* after n >= 1 attempts slept (n - 1) * retry_interval, made at most
\* max_retries attempts, and raised the transport error only on attempt
\* max_retries.
C6_RetryWithFixedInterval ==
    /\ [][ /\ (f_pc = "request" /\ f_resp'.kind \in {"conn_fail", "http_error"})
               => /\ now' = now
                  /\ IF f_attempt < f_max_retries
                       THEN f_pc' = "sleep"
                       ELSE f_pc' = "raised" /\ f_exc' = "RequestException"
           /\ (f_pc = "request" /\ f_resp'.kind \in {"dict", "nondict"})
               => (f_pc' = "returned" /\ f_result' = f_resp' /\ now' = now)
           /\ (f_pc = "sleep")
               => /\ f_pc' = "request"
                  /\ now' = now + f_retry_interval
                  /\ f_attempt' = f_attempt + 1 ]_vars
    /\ []( (f_pc \in {"returned", "raised"} /\ f_attempt >= 1)
             => /\ now - f_start = (f_attempt - 1) * f_retry_interval
                /\ f_attempt <= f_max_retries )
    /\ [](f_exc = "RequestException" => f_attempt = f_max_retries)
    /\ [](f_pc \in {"returned", "raised"} => ~ENABLED FetchNext)

C6_Witness ==
    /\ f_pc = "raised" /\ f_exc = "RequestException"
    /\ f_resp.kind = "http_error"
    /\ f_max_retries = 3 /\ f_attempt = 3
    /\ now - f_start = 2 * f_retry_interval

\* C7 as stated: a call of fetch_api_data ends either returning the parsed
\* JSON of a successful response or raising the transport error.
C7_ReturnsJsonOrRaisesTransportError ==
    /\ f_pc = "returned" => f_result.kind \in {"dict", "nondict"}
    /\ f_pc = "raised" => f_exc = "RequestException"

(***************************************************************************)
(* Properties of fetch_and_cache_xunit_xml (checked under XunitSpec)       *)
(***************************************************************************)
\* The step is the beginning of a call.
XCallStep == x_pc \in {"idle", "returned"} /\ calls' # calls

\* C8 as stated: after two calls with the same api_url and the same cache
\* (default retry arguments) exactly one GET of that URL has been issued.
C8_ExactlyOneGetForTwoCalls ==
    (cache_used /\ x_max_retries = XunitDefaultMaxRetries
       /\ x_pc = "returned" /\ calls[x_url] = 2)
        => gets[x_url] = 1

\* C8 amended: with a cache dict, a call for an api_url that is in the cache
\* returns the cached record without any HTTP request, every call that
\* returns leaves its api_url in the cache, and so api_url is requested by
\* the first call for it only: at most max_retries GETs (one per attempt),
\* not necessarily one.
C8_OnlyTheFirstCallFetches ==
    /\ [][ (XCallStep /\ cache_used /\ x_url' \in DOMAIN cache)
             => /\ x_pc' = "returned"
                /\ x_ret' = cache[x_url']
                /\ gets' = gets
                /\ cache' = cache ]_vars
    /\ []( (cache_used /\ x_pc = "returned") => x_url \in DOMAIN cache )
    /\ []( cache_used => \A u \in ApiUrls : gets[u] <= x_max_retries )

C8_Witness ==
    /\ cache_used
    /\ x_pc = "returned"
    /\ calls[x_url] = 2
    /\ gets[x_url] = 3
    /\ x_ret.overall = "pass"
    /\ cache[x_url] = x_ret

\* C9: a job-status fetch that fails for good (a transport failure on the
\* last attempt, a body that cannot be decoded or is not the expected object,
\* or no attempt at all) makes the call return the placeholder record; the
\* call never ends with an exception.
C9_StatusFailureGivesPlaceholder ==
    /\ [][ ( \/ /\ x_pc = "status_request"
                /\ \/ /\ x_resp'.kind \in {"conn_fail", "http_error", "bad_json"}
                      /\ x_attempt >= x_max_retries
                   \/ x_resp'.kind = "bad_json" /\ ~json_error_is_request_exc
                   \/ x_resp'.kind = "nondict"
                   \/ x_resp'.kind = "dict"
                        /\ (x_resp'.result = "null" \/ x_resp'.run = "null")
             \/ /\ XCallStep
                /\ ~(cache_used /\ x_url' \in DOMAIN cache)
                /\ x_max_retries < 1 )
             => /\ x_pc' = "returned"
                /\ x_ret' = [overall |-> "warn", xunit_url |-> "",
                             artifacts_url |-> "", xunit_xml_root |-> NoRoot,
                             test_plan_names |-> <<>>] ]_vars
    /\ [](x_pc # "raised")

C9_Witness ==
    /\ x_pc = "returned"
    /\ x_resp.kind = "conn_fail"
    /\ x_max_retries = 3
    /\ calls[x_url] = 1
    /\ gets[x_url] = 3
    /\ x_ret = [overall |-> "warn", xunit_url |-> "", artifacts_url |-> "",
                xunit_xml_root |-> NoRoot, test_plan_names |-> <<>>]

\* C10: when the job-status document was fetched and the XUnit XML cannot be
\* fetched (a transport failure on the last attempt) or parsed, the call
\* returns, and stores in the cache, a record with the overall (normalised,
\* 'warn' when absent), the xunit_url and the artifacts_url of the status
\* document, xunit_xml_root None and no test plan names.
C10_XmlFailureKeepsJobData ==
    [][ ( /\ x_pc = "xunit_request"
          /\ \/ x_resp'.kind = "malformed"
             \/ /\ x_resp'.kind \in {"conn_fail", "http_error"}
                /\ x_attempt >= x_max_retries )
          => /\ x_pc' = "returned"
             /\ x_ret' = [overall |-> CASE x_data.overall = "passed" -> "pass"
                                        [] x_data.overall = "failed" -> "fail"
                                        [] x_data.overall = Absent -> "warn"
                                        [] OTHER -> x_data.overall,
                          xunit_url |-> x_data.xunit_url,
                          artifacts_url |-> IF x_data.artifacts = Absent
                                              THEN "" ELSE x_data.artifacts,
                          xunit_xml_root |-> NoRoot,
                          test_plan_names |-> <<>>]
             /\ cache_used => (x_url \in DOMAIN cache' /\ cache'[x_url] = x_ret') ]_vars

C10_Witness ==
    /\ cache_used
    /\ x_pc = "returned"
    /\ x_resp.kind = "malformed"
    /\ x_ret.overall = "pass"
    /\ x_ret.xunit_url = "xunit1"
    /\ x_ret.artifacts_url = "artifacts1"
    /\ x_ret.xunit_xml_root = NoRoot
    /\ x_ret.test_plan_names = <<>>
    /\ cache[x_url] = x_ret

(***************************************************************************)
(* The overall result of a job: get_results (tft-wait.py) and the overall  *)
(* field of fetch_and_cache_xunit_xml, applied to the same answer.         *)
(***************************************************************************)
\* What the job-status endpoint can answer, result.overall ranging over
\* every kind of value: missing, JSON null, the two normalised strings and
\* another string.
OverallResponses ==
    {XStatusFailure(k) : k \in {"conn_fail", "http_error", "bad_json", "nondict"}}
      \cup { [kind |-> "dict", result |-> r[1], overall |-> r[2], xunit_url |-> r[3],
              run |-> a[1], artifacts |-> a[2]] :
               r \in ({<<Absent, Absent, Absent>>, <<"null", Absent, Absent>>}
                        \cup ({"dict"} \X Overalls \X ({Absent} \cup XunitUrls))),
               a \in {<<Absent, Absent>>, <<"null", Absent>>,
                      <<"dict", "artifacts1">>} }

\* get_results: every exception (fetch_api_data raising after its retries,
\* .get on a value that is no dict) gives "warn"; overall = result.get(
\* "overall") is None for a missing key and for JSON null.
GetResults(resp) ==
    IF resp.kind # "dict" \/ resp.result = "null" THEN "warn"
    ELSE IF resp.overall \in {Absent, "null"} THEN "warn"
    ELSE IF resp.overall = "failed" THEN "fail"
    ELSE IF resp.overall = "passed" THEN "pass"
    ELSE resp.overall

\* The 'overall' of the record fetch_and_cache_xunit_xml returns for an
\* answer: the placeholder's when lines 187-210 raise, the normalised value
\* otherwise (whatever becomes of the XML report).
XunitOverall(resp) ==
    IF XResponseException(resp) # "none" \/ XProcessRaises(resp)
      THEN PlaceholderRecord.overall
      ELSE XOverall(resp)

\* results = get_results(result_url)
OverallGetResults ==
    /\ g_data # NoStatus
    /\ g_results = Unset
    /\ g_results' = GetResults(g_data)
    /\ UNCHANGED <<notOverallVars, g_data, g_overall>>

\* xunit_data = fetch_and_cache_xunit_xml(api_url, ...); xunit_data['overall']
OverallXunit ==
    /\ g_data # NoStatus
    /\ g_overall = Unset
    /\ g_overall' = XunitOverall(g_data)
    /\ UNCHANGED <<notOverallVars, g_data, g_results>>

\* Both functions are given the same answer of the endpoint.
OverallInit ==
    /\ json_error_is_request_exc \in BOOLEAN
    /\ now = 0
    /\ FetchIdle
    /\ WaitOff
    /\ XunitOff
    /\ g_data \in OverallResponses
    /\ g_results = Unset
    /\ g_overall = Unset
    /\ NormOff
    /\ MatchOff
    /\ WikiOff
    /\ MainOff
    /\ ReportOff
    /\ ImageOff

OverallNext ==
    \/ OverallGetResults
    \/ OverallXunit

OverallSpec == OverallInit /\ [][OverallNext]_vars

\* The normalisation as stated: 'passed' -> 'pass', 'failed' -> 'fail', an
\* absent overall -> 'warn', every other present value unchanged.  JSON null
\* is read as a present value or as an absent one (nullIsPresent).
StatedOverall(resp, nullIsPresent) ==
    IF resp.overall = Absent \/ (resp.overall = "null" /\ ~nullIsPresent)
      THEN "warn"
    ELSE IF resp.overall = "passed" THEN "pass"
    ELSE IF resp.overall = "failed" THEN "fail"
    ELSE resp.overall

\* C11: for every job-status document whose result is an object (or is
\* missing), get_results and the overall field of fetch_and_cache_xunit_xml
\* both equal the stated normalisation of result.overall: 'passed' -> 'pass',
\* 'failed' -> 'fail', absent -> 'warn', any other present value unchanged
\* (under one reading of JSON null, the same for both functions).
C11_OverallNormalizationIsTotal ==
    (g_data.kind = "dict" /\ g_data.result # "null" /\ g_data.run # "null")
      => \E nullIsPresent \in BOOLEAN :
            /\ g_results # Unset => g_results = StatedOverall(g_data, nullIsPresent)
            /\ g_overall # Unset => g_overall = StatedOverall(g_data, nullIsPresent)

(***************************************************************************)
(* The test-case name of match_qatestcase_with_fmf_plan_name (lines        *)
(* 319-324).  A string is the sequence of its characters.                  *)
(***************************************************************************)
QAPrefix       == <<"Q", "A", ":">>
TestcasePrefix == <<"T", "e", "s", "t", "c", "a", "s", "e", "_">>
Whitespace     == {" "}

\* The pieces identifiers are made of: the two literals, parts of "QA:" that
\* can join into it, its lower-case spelling, a blank and another character.
Fragments ==
    {QAPrefix, <<"Q">>, <<"A", ":">>, <<"q", "a", ":">>, TestcasePrefix,
     <<" ">>, <<"x">>}
MaxFragments == 3

RECURSIVE Identifiers(_)
Identifiers(n) ==
    IF n = 0 THEN {<<>>}
    ELSE LET shorter == Identifiers(n - 1)
         IN  shorter \cup {f \o s : f \in Fragments, s \in shorter}

\* s.startswith(p)
StartsWith(s, p) == Len(s) >= Len(p) /\ SubSeq(s, 1, Len(p)) = p

\* s.replace(old, ""): every occurrence of old, found from left to right
\* without overlap, is removed.
RECURSIVE Replace(_, _)
Replace(s, old) ==
    IF s = <<>> THEN <<>>
    ELSE IF StartsWith(s, old)
           THEN Replace(SubSeq(s, Len(old) + 1, Len(s)), old)
           ELSE <<Head(s)>> \o Replace(Tail(s), old)

\* s.strip()
RECURSIVE LStrip(_)
LStrip(s) ==
    IF s # <<>> /\ Head(s) \in Whitespace THEN LStrip(Tail(s)) ELSE s
RECURSIVE RStrip(_)
RStrip(s) ==
    IF s # <<>> /\ s[Len(s)] \in Whitespace
      THEN RStrip(SubSeq(s, 1, Len(s) - 1)) ELSE s
Strip(s) == RStrip(LStrip(s))

\* testcase_name = qatestcase.replace("QA:", "").strip(); when it does not
\* start with "Testcase_": "Testcase_" + testcase_name.replace('Testcase_', '')
TestcaseName(qatestcase) ==
    LET name == Strip(Replace(qatestcase, QAPrefix))
    IN  IF StartsWith(name, TestcasePrefix) THEN name
        ELSE TestcasePrefix \o Replace(name, TestcasePrefix)

\* The name is computed from the identifier.
NormalizeFirst ==
    /\ n_name = Unset
    /\ n_again = Unset
    /\ n_name' = TestcaseName(n_qatestcase)
    /\ UNCHANGED <<notNormVars, n_qatestcase, n_again>>

\* The computed name is given to the function as the identifier.
NormalizeAgain ==
    /\ n_name # Unset
    /\ n_again = Unset
    /\ n_again' = TestcaseName(n_name)
    /\ UNCHANGED <<notNormVars, n_qatestcase, n_name>>

NormInit ==
    /\ json_error_is_request_exc = FALSE
    /\ now = 0
    /\ FetchIdle
    /\ WaitOff
    /\ XunitOff
    /\ OverallOff
    /\ n_qatestcase \in Identifiers(MaxFragments)
    /\ n_name = Unset
    /\ n_again = Unset
    /\ MatchOff
    /\ WikiOff
    /\ MainOff
    /\ ReportOff
    /\ ImageOff

NormNext ==
    \/ NormalizeFirst
    \/ NormalizeAgain

NormSpec == NormInit /\ [][NormNext]_vars

\* C12: normalising a normalised test-case name changes nothing:
\* normalize(normalize(x)) = normalize(x) for every identifier x.
C12_NormalizationIsIdempotent ==
    n_again # Unset => n_again = n_name

\* The normalisation as stated: a leading "QA:" is removed, then "Testcase_"
\* is put in front unless the name begins with it; nothing else changes.
StatedTestcaseName(qatestcase) ==
    LET name == IF StartsWith(qatestcase, QAPrefix)
                  THEN SubSeq(qatestcase, Len(QAPrefix) + 1, Len(qatestcase))
                  ELSE qatestcase
    IN  IF StartsWith(name, TestcasePrefix) THEN name
        ELSE TestcasePrefix \o name

HasWhitespace(s) == \E i \in 1..Len(s) : s[i] \in Whitespace

\* C13: for an identifier without blanks the computed name is the identifier
\* without a leading "QA:" (any other "QA:" kept), with "Testcase_" put in
\* front when it does not already begin with it, and otherwise unchanged.
C13_OnlyLeadingPrefixRemoved ==
    (n_name # Unset /\ ~HasWhitespace(n_qatestcase))
      => n_name = StatedTestcaseName(n_qatestcase)

(***************************************************************************)
(* match_qatestcase_with_fmf_plan_name: the loop over the testsuite        *)
(* elements.  Names, tags and identifiers are sequences of characters.     *)
(***************************************************************************)
PlansPrefix == <<"/", "p", "l", "a", "n", "s", "/">>
Slash == "/"

UpperCase == <<"A", "B", "C", "D", "E", "F", "G", "H", "I", "J", "K", "L", "M", "N", "O", "P", "Q", "R", "S", "T", "U", "V", "W", "X", "Y", "Z">>
LowerCase == <<"a", "b", "c", "d", "e", "f", "g", "h", "i", "j", "k", "l", "m", "n", "o", "p", "q", "r", "s", "t", "u", "v", "w", "x", "y", "z">>
\* str.lower(), character by character.
LowerChar(c) ==
    IF \E i \in 1..Len(UpperCase) : UpperCase[i] = c
      THEN LowerCase[CHOOSE i \in 1..Len(UpperCase) : UpperCase[i] = c]
      ELSE c
Lower(s) == [i \in 1..Len(s) |-> LowerChar(s[i])]

\* s.split('/'): the pieces between the slashes, the empty ones included.
\* The cuts are the positions of the slashes and the two ends of the string.
Cuts(s) == {0, Len(s) + 1} \cup {i \in 1..Len(s) : s[i] = Slash}
NthCut(s, n) == CHOOSE c \in Cuts(s) : Cardinality({d \in Cuts(s) : d < c}) = n - 1
Split(s) ==
    [n \in 1..(Cardinality(Cuts(s)) - 1) |->
        SubSeq(s, NthCut(s, n) + 1, NthCut(s, n + 1) - 1)]

\* path_elements = [elem for elem in test_plan_name.split('/') if elem]
NonEmpty(elem) == elem # <<>>
PathElements(test_plan_name) == SelectSeq(Split(test_plan_name), NonEmpty)

\* The name attributes of the modelled testsuite elements.
NameCloudWiki  == <<"/", "p", "l", "a", "n", "s", "/", "c", "l", "o", "u", "d", "/", "l", "o", "c", "a", "l", "/", "w", "i", "k", "i", "/", "T", "e", "s", "t", "c", "a", "s", "e", "_", "b", "a", "s", "e", "_", "s", "t", "a", "r", "t", "u", "p">>
NameOther      == <<"/", "p", "l", "a", "n", "s", "/", "o", "t", "h", "e", "r", "/", "T", "e", "s", "t", "c", "a", "s", "e", "_", "b", "a", "s", "e", "_", "s", "t", "a", "r", "t", "u", "p">>
NameUpperCloud == <<"/", "p", "l", "a", "n", "s", "/", "C", "L", "O", "U", "D", "/", "T", "e", "s", "t", "c", "a", "s", "e", "_", "b", "a", "s", "e", "_", "s", "t", "a", "r", "t", "u", "p", "/", "T", "e", "s", "t", "c", "a", "s", "e", "_", "x">>
NameNotPlans   == <<"/", "o", "t", "h", "e", "r", "/", "c", "l", "o", "u", "d", "/", "T", "e", "s", "t", "c", "a", "s", "e", "_", "b", "a", "s", "e", "_", "s", "t", "a", "r", "t", "u", "p">>
NameLowerCase  == <<"/", "p", "l", "a", "n", "s", "/", "c", "l", "o", "u", "d", "/", "t", "e", "s", "t", "c", "a", "s", "e", "_", "b", "a", "s", "e", "_", "s", "t", "a", "r", "t", "u", "p">>
SuiteNames ==
    {NameCloudWiki, NameOther, NameUpperCloud, NameNotPlans, NameLowerCase}
SuiteResults == {"passed", "failed"}
\* The testsuite elements: every name with every result, one element
\* without a result attribute (get gives '') and one without a name.
MatchSuites ==
    {Suite(n, r) : n \in SuiteNames, r \in SuiteResults}
      \cup {Suite(NameCloudWiki, ""), Suite(<<>>, "passed")}
MaxSuites == 2

RECURSIVE MatchDocs(_)
MatchDocs(n) ==
    IF n = 0 THEN {<<>>}
    ELSE LET shorter == MatchDocs(n - 1)
         IN  shorter \cup {<<e>> \o d : e \in MatchSuites, d \in shorter}

QATestcases == {<<"Q", "A", ":", "T", "e", "s", "t", "c", "a", "s", "e", "_", "b", "a", "s", "e", "_", "s", "t", "a", "r", "t", "u", "p">>, <<"T", "e", "s", "t", "c", "a", "s", "e", "_", "x">>}
PlanTags    == {<<"c", "l", "o", "u", "d">>, <<"C", "l", "o", "u", "d">>}

\* if fmf_plan_name_tag.lower() == element.lower()
PlanTagMatchesExactly(tag, element) == tag = element
PlanTagMatches(tag, element) == Lower(tag) = Lower(element)

\* plan_name_in_path: some element of the path is the tag (lines 351-356).
PlanNameInPath(tag, path_elements) ==
    \E k \in 1..Len(path_elements) : PlanTagMatches(tag, path_elements[k])

\* testcase_in_path: some element of the path is the name (lines 360-365).
TestcaseInPath(name, path_elements) ==
    \E k \in 1..Len(path_elements) : path_elements[k] = name

\* if testcase_result is None: testcase_result = test_plan_result
LastResult(current, test_plan_result) == test_plan_result
FirstResult(current, test_plan_result) ==
    IF current = None THEN test_plan_result ELSE current

\* Lines 314-336: the locals, the name, and the early return when there is
\* no parsed document.
MatchName ==
    /\ m_pc = "name"
    /\ testcase_name' = TestcaseName(m_qatestcase)
    /\ IF m_xunit_data.parsed
         THEN /\ m_pc' = "loop"
              /\ m_i' = 1
              /\ m_ret' = m_ret
         ELSE /\ m_pc' = "returned"
              /\ m_i' = m_i
              /\ m_ret' = MatchResult(FALSE, FALSE, <<>>, None)
    /\ UNCHANGED <<notMatchVars, m_xunit_data, m_qatestcase, m_tag,
                   qatestcase_found, fmf_plan_name_found, matching_test_plans,
                   testcase_result>>

\* One iteration of "for testsuite in root.findall('.//testsuite')".
MatchSuite ==
    /\ m_pc = "loop"
    /\ m_i <= Len(m_xunit_data.suites)
    /\ LET testsuite == m_xunit_data.suites[m_i]
           test_plan_name == testsuite.name
           test_plan_result == testsuite.result
           path_elements == PathElements(test_plan_name)
           plan_name_in_path == PlanNameInPath(m_tag, path_elements)
           testcase_in_path == TestcaseInPath(testcase_name, path_elements)
       IN  IF StartsWith(test_plan_name, PlansPrefix)
             THEN /\ fmf_plan_name_found' = (fmf_plan_name_found \/ plan_name_in_path)
                  /\ qatestcase_found' = (qatestcase_found \/ testcase_in_path)
                  /\ IF plan_name_in_path /\ testcase_in_path
                       THEN /\ matching_test_plans' =
                                 Append(matching_test_plans,
                                        <<test_plan_name, test_plan_result>>)
                            /\ testcase_result' =
                                 FirstResult(testcase_result, test_plan_result)
                       ELSE UNCHANGED <<matching_test_plans, testcase_result>>
             ELSE UNCHANGED <<fmf_plan_name_found, qatestcase_found,
                              matching_test_plans, testcase_result>>
    /\ m_i' = m_i + 1
    /\ UNCHANGED <<notMatchVars, m_pc, m_xunit_data, m_qatestcase, m_tag,
                   testcase_name, m_ret>>

\* Lines 374-379: the loop is over.
MatchReturn ==
    /\ m_pc = "loop"
    /\ m_i > Len(m_xunit_data.suites)
    /\ m_pc' = "returned"
    /\ m_ret' = MatchResult(qatestcase_found, fmf_plan_name_found,
                            matching_test_plans, testcase_result)
    /\ UNCHANGED <<notMatchVars, m_xunit_data, m_qatestcase, m_tag, m_i,
                   testcase_name, qatestcase_found, fmf_plan_name_found,
                   matching_test_plans, testcase_result>>

\* One call: a record with or without a parsed document, an identifier and
\* a tag; the locals as lines 314-317 set them.
MatchInit ==
    /\ json_error_is_request_exc = FALSE
    /\ now = 0
    /\ FetchIdle
    /\ WaitOff
    /\ XunitOff
    /\ OverallOff
    /\ NormOff
    /\ m_pc = "name"
    /\ m_xunit_data \in {NoRoot} \cup {Root(d) : d \in MatchDocs(MaxSuites)}
    /\ m_qatestcase \in QATestcases
    /\ m_tag \in PlanTags
    /\ m_i = 0
    /\ testcase_name = <<>>
    /\ qatestcase_found = FALSE
    /\ fmf_plan_name_found = FALSE
    /\ matching_test_plans = <<>>
    /\ testcase_result = None
    /\ m_ret = NoMatchResult
    /\ WikiOff
    /\ MainOff
    /\ ReportOff
    /\ ImageOff

MatchNext ==
    \/ MatchName
    \/ MatchSuite
    \/ MatchReturn

MatchSpec == MatchInit /\ [][MatchNext]_vars

\* A test-suite name has an element equal to the tag ignoring case and an
\* element equal to the normalised name of the identifier.
HasBothElements(name, tag, qatestcase) ==
    LET elems == PathElements(name)
    IN  /\ \E k \in 1..Len(elems) : Lower(elems[k]) = Lower(tag)
        /\ \E k \in 1..Len(elems) : elems[k] = TestcaseName(qatestcase)

\* The paths of the returned matching_test_plans, in their order.
ReturnedPaths == [k \in 1..Len(m_ret.matching_test_plans) |->
                     m_ret.matching_test_plans[k][1]]
\* The names of the testsuite elements of the document, in document order.
DocumentNames == [k \in 1..Len(m_xunit_data.suites) |-> m_xunit_data.suites[k].name]

SuiteHasBoth(name) == HasBothElements(name, m_tag, m_qatestcase)
SuiteQualifies(name) ==
    StartsWith(name, PlansPrefix) /\ HasBothElements(name, m_tag, m_qatestcase)

\* C14 as stated: the returned matching_test_plans lists, in document order,
\* exactly the test-suite names that have an element equal to the tag
\* ignoring case and an element equal to the normalised test-case name.
C14_ExactlyThePathsWithBothElements ==
    m_pc = "returned" => ReturnedPaths = SelectSeq(DocumentNames, SuiteHasBoth)

\* C14: the returned matching_test_plans lists, in document order, exactly
\* the test-suite names that begin with "/plans/" and have an element equal
\* to the tag ignoring case and an element equal to the normalised name.
C14_ExactlyThePlansPathsWithBothElements ==
    m_pc = "returned" => ReturnedPaths = SelectSeq(DocumentNames, SuiteQualifies)

\* The example: the two paths, 'QA:Testcase_base_startup' and 'cloud' give
\* the first path only.
C14_Witness ==
    /\ m_pc = "returned"
    /\ DocumentNames = <<NameCloudWiki, NameOther>>
    /\ m_qatestcase = QAPrefix \o TestcasePrefix
                        \o <<"b", "a", "s", "e", "_", "s", "t", "a", "r", "t", "u", "p">>
    /\ m_tag = <<"c", "l", "o", "u", "d">>
    /\ ReturnedPaths = <<NameCloudWiki>>

\* The testsuite elements of the document that qualify, in document order.
ElementQualifies(testsuite) == SuiteQualifies(testsuite.name)
QualifyingSuites == SelectSeq(m_xunit_data.suites, ElementQualifies)

UserBot      == <<"B", "o", "t">>
UserBotUpper == <<"B", "O", "T">>
UserEve      == <<"e", "v", "e">>
NoUser       == <<"None">>

\* Comments: none, blanks only, a text, and a text of 251 characters.
CommentMaxLen  == 250
NoComment      == <<>>
BlankComment   == <<" ">>
TextComment    == <<"c">>
TooLongComment == [i \in 1..(CommentMaxLen + 1) |-> "c"]

\* A result entry of the page.
Result(user, cmt) == [user |-> user, comment |-> cmt]
ExistingResults ==
    { <<>>,
      <<Result(UserEve, NoComment)>>,
      <<Result(UserEve, TextComment)>>,
      <<Result(UserEve, BlankComment)>>,
      <<Result(UserBotUpper, NoComment)>>,
      <<Result(UserBotUpper, TextComment)>>,
      <<Result(NoUser, TextComment)>>,
      <<Result(UserEve, NoComment), Result(UserBotUpper, TextComment)>>,
      <<Result(UserEve, TextComment), Result(UserEve, NoComment)>>,
      <<Result(UserEve, NoComment), Result(UserEve, TextComment)>> }

\* Environment names and the column lists of a page (test.results.keys()).
EnvEc2Upper == <<"E", "C", "2">>
EnvEc2Mixed == <<"E", "c", "2">>
EnvEc2Lower == <<"e", "c", "2">>
EnvKvm      == <<"k", "v", "m">>
EnvColumns ==
    { <<>>, <<EnvKvm>>, <<EnvEc2Upper, EnvEc2Lower>>, <<EnvEc2Upper, EnvEc2Mixed>> }
Environments == {EnvEc2Lower, EnvEc2Mixed}

\* The sections of the page (page.results_sections, each with rows) and the
\* result rows (page.get_resultrows): the test case and the section of each.
TestcaseA == <<"A">>
TestcaseB == <<"B">>
TestcaseC == <<"C">>
Section(index, line) == [index |-> index, line |-> line]
PageSections == <<Section(1, <<"x", "8", "6">>), Section(2, <<"a", "r", "m">>)>>
Row(testcase, secid) == [testcase |-> testcase, secid |-> secid]
PageRows == <<Row(TestcaseA, 1), Row(TestcaseB, 1), Row(TestcaseA, 2)>>

\* The section filters a caller passes; NoSections is sections=None.
NoSections == <<"None">>
SectionFilters == {<<"x">>, <<"x", "8", "6", "_", "6", "4">>, <<"a", "r", "m">>, <<"z", "z">>}

\* The rows' results: one list in one column of the first row, another in
\* the same column of the other rows, nothing elsewhere.
PageResults(first, others, column) ==
    [k \in 1..Len(PageRows) |->
        [j \in 1..2 |-> IF j # column THEN <<>>
                        ELSE IF k = 1 THEN first ELSE others]]

\* sub in s (Python's substring test; the empty string is in every string).
Contains(sub, s) ==
    \E i \in 1..(Len(s) + 1) :
        i + Len(sub) - 1 <= Len(s) /\ SubSeq(s, i, i + Len(sub) - 1) = sub

Min(S) == CHOOSE x \in S : \A y \in S : x <= y

\* The position of an environment among the columns (0: not a column).
ColumnOf(envs, name) ==
    IF \E j \in 1..Len(envs) : envs[j] = name
      THEN Min({j \in 1..Len(envs) : envs[j] = name}) ELSE 0

\* comment_string(string, maxlen=250): the stripped text in <ref> tags, the
\* empty string as it is; a text longer than maxlen raises ValueError.
CommentTooLong(string) == Len(Strip(string)) > CommentMaxLen
CommentString(string) ==
    IF Strip(string) = <<>> THEN <<>>
    ELSE <<"<", "r", "e", "f", ">">> \o Strip(string) \o <<"<", "/", "r", "e", "f", ">">>

\* The page.add_result(res, test, env) call as it is recorded.
AddResult(row, envname, user, cmt, ok) ==
    [row |-> row, env |-> envname, user |-> user, comment |-> cmt, ok |-> ok]

\* test.results[env] as a call reads it: the results the page had at first,
\* then those that page.add_result has added to the row and environment.
WrittenTo(row, envname) ==
    SelectSeq(written, LAMBDA w : w.ok /\ w.row = row /\ w.env = envname)
CurrentResults(row, envname) ==
    page_results[row][ColumnOf(page_envs, envname)]
      \o [k \in 1..Len(WrittenTo(row, envname)) |->
            Result(WrittenTo(row, envname)[k].user,
                   WrittenTo(row, envname)[k].comment)]

\* ---- modify_testcase_result (report_results_noninteractiveNEW.py) -------
\* Lines 467-471: the section passes the filter.
ModifySectionSelected(filter, label) ==
    \/ filter = NoSections
    \/ /\ filter # <<>>
       /\ Contains(filter, label) \/ Contains(label, filter)

\* Lines 453-481: the first row with the test case in the first selected
\* section that has one (0: none).
ModifyFindRowAnySection(filter, qatestcase) ==
    LET rows == {k \in 1..Len(PageRows) : PageRows[k].testcase = qatestcase}
    IN  IF rows = {} THEN 0 ELSE Min(rows)
ModifyFindRow(filter, qatestcase) ==
    LET rows(i) == {k \in 1..Len(PageRows) :
                       /\ PageRows[k].secid = PageSections[i].index
                       /\ PageRows[k].testcase = qatestcase}
        secs == {i \in 1..Len(PageSections) :
                    /\ ModifySectionSelected(filter, PageSections[i].line)
                    /\ rows(i) # {}}
    IN  IF secs = {} THEN 0 ELSE Min(rows(Min(secs)))

\* Lines 491-501: the environment itself when it is a column, else the first
\* column equal to it ignoring case, else None.
ModifyEnvLastMatch(envs, name) ==
    IF \E j \in 1..Len(envs) : Lower(envs[j]) = Lower(name)
      THEN envs[CHOOSE j \in 1..Len(envs) :
                   /\ Lower(envs[j]) = Lower(name)
                   /\ \A k \in 1..Len(envs) : Lower(envs[k]) = Lower(name) => k <= j]
      ELSE Unset
ModifyEnv(envs, name) ==
    IF \E j \in 1..Len(envs) : envs[j] = name THEN name
    ELSE IF \E j \in 1..Len(envs) : Lower(envs[j]) = Lower(name)
      THEN envs[Min({j \in 1..Len(envs) : Lower(envs[j]) = Lower(name)})]
    ELSE Unset

\* Line 514: r.user and isinstance(r.user, str) and r.user.lower() == username
ModifySameUserExactly(r, username) == r.user # NoUser /\ r.user = username
ModifySameUser(r, username) ==
    r.user # NoUser /\ r.user # <<>> /\ Lower(r.user) = username

\* Lines 524-537: the comment of the new result.
ModifyCommentKept(results, cmt) == cmt
ModifyComment(results, cmt) ==
    IF /\ results # <<>>
       /\ cmt # <<>>
       /\ results[1].comment # <<>>
       /\ Strip(results[1].comment) # <<>>
      THEN <<>>
      ELSE cmt

\* Lines 554-578: what follows the call of page.add_result: the dict with
\* the wiki_url, or the RuntimeError that wraps the exception of the call.
AddedWhateverHappened(ok) ==
    [Outcome("returned", TRUE, TRUE, "none", <<>>, 0)
       EXCEPT !.wiki_url = "https://stg.fedoraproject.org/wiki/page"]
Added(ok) ==
    IF ok
      THEN [Outcome("returned", TRUE, TRUE, "none", <<>>, 0)
              EXCEPT !.wiki_url = "https://stg.fedoraproject.org/wiki/page"]
      ELSE Outcome("raised", FALSE, FALSE, "RuntimeError", <<>>, 0)

\* Lines 423-488: the arguments and the user name are checked and the row
\* of the test case is looked up.
ModifyFindTest ==
    /\ script = "NEW"
    /\ r_pc = "find"
    /\ IF environment = <<>> \/ wiki_username = <<>>
         THEN /\ r_pc' = "raised"
              /\ r_out' = Outcome("raised", FALSE, FALSE, "ValueError", <<>>, 0)
              /\ test' = test
         ELSE LET row == ModifyFindRow(sections, testcase_list[1][1])
              IN  /\ test' = row
                  /\ IF row = 0
                       THEN /\ r_pc' = "returned"
                            /\ r_out' = Outcome("returned", FALSE, FALSE, "none", <<>>, 0)
                       ELSE /\ r_pc' = "env"
                            /\ r_out' = r_out
    /\ UNCHANGED <<notWikiVars, wiki_username, page_envs, page_results, script,
                   environment, comment, allow_duplicate, sections, try_mode,
                   testcase_list, r_i, env, reported, failed, written>>

\* Lines 490-508: the environment is resolved among the columns of the row.
ModifyResolveEnv ==
    /\ script = "NEW"
    /\ r_pc = "env"
    /\ env' = ModifyEnv(page_envs, environment)
    /\ IF env' = Unset
         THEN /\ r_pc' = "raised"
              /\ r_out' = Outcome("raised", FALSE, FALSE, "ValueError", page_envs, 0)
         ELSE /\ r_pc' = "add"
              /\ r_out' = r_out
    /\ UNCHANGED <<notWikiVars, wiki_username, page_envs, page_results, script,
                   environment, comment, allow_duplicate, sections, try_mode,
                   testcase_list, r_i, test, reported, failed, written>>

\* Lines 510-578: the existing results of the environment are inspected,
\* the comment is settled and the result is added.
ModifyAddResult ==
    /\ script = "NEW"
    /\ r_pc = "add"
    /\ LET username == Lower(wiki_username)
           results == CurrentResults(test, env)
           myres == {k \in 1..Len(results) : ModifySameUser(results[k], username)}
           cmt == ModifyComment(results, comment)
       IN  IF myres # {} /\ ~allow_duplicate
             THEN /\ r_pc' = "returned"
                  /\ r_out' = Outcome("returned", TRUE, FALSE, "none", <<>>, 0)
                  /\ written' = written
             ELSE IF CommentTooLong(cmt)
               THEN /\ r_pc' = "raised"
                    /\ r_out' = Outcome("raised", FALSE, FALSE, "ValueError", <<>>, 0)
                    /\ written' = written
               ELSE \E ok \in BOOLEAN :
                      /\ written' = Append(written,
                             AddResult(test, env,
                                       <<"b", "o", "t", "=", "t", "r", "u", "e", "|">>
                                          \o username,
                                       CommentString(cmt), ok))
                      /\ r_out' = Added(ok)
                      /\ r_pc' = r_out'.kind
    /\ UNCHANGED <<notWikiVars, wiki_username, page_envs, page_results, script,
                   environment, comment, allow_duplicate, sections, try_mode,
                   testcase_list, r_i, test, env, reported, failed>>

\* ---- report_result and report_testcase_list
\*      (report_results_noninteractive.py) --------------------------------
\* Line 90: section in sec_line_clean or sec_line_clean in section
ReportSectionMatches(section, label) ==
    Contains(section, label) \/ Contains(label, section)

\* Lines 87-102: the first matching section, then its first row with the
\* test case (0: no section matches, or the section has no such row).
ReportFindRow(section, testcase) ==
    LET secs == {i \in 1..Len(PageSections) :
                    ReportSectionMatches(section, PageSections[i].line)}
        rows == {k \in 1..Len(PageRows) :
                    /\ PageRows[k].secid = PageSections[Min(secs)].index
                    /\ PageRows[k].testcase = testcase}
    IN  IF secs = {} THEN 0
        ELSE IF rows = {} THEN 0 ELSE Min(rows)

\* Lines 105-115: the environment itself when it is a column, else the first
\* column equal to it ignoring case, else None.
ReportEnv(envs, name) ==
    IF \E j \in 1..Len(envs) : envs[j] = name THEN name
    ELSE IF \E j \in 1..Len(envs) : Lower(envs[j]) = Lower(name)
      THEN envs[Min({j \in 1..Len(envs) : Lower(envs[j]) = Lower(name)})]
    ELSE Unset

\* Line 234: testcase_comment = comment if use_comment else ""
TestcaseComment == IF testcase_list[r_i][2] THEN comment ELSE <<>>

\* except Exception as err: failed.append(...); the loop goes on.
ListFailed(exc, names) ==
    /\ failed' = Append(failed, <<testcase_list[r_i][1], exc, names>>)
    /\ r_i' = r_i + 1
    /\ r_pc' = "find"
    /\ test' = 0
    /\ env' = Unset
    /\ UNCHANGED <<reported, written, r_out>>

\* sys.exit(code): SystemExit is no Exception, the except clause of
\* report_testcase_list lets it through and the process ends.
ListExit(code) ==
    /\ r_pc' = "exited"
    /\ r_out' = Outcome("exited", test # 0, FALSE, "SystemExit", <<>>, code)
    /\ UNCHANGED <<failed, reported, written, r_i, test, env>>

\* Lines 208-228: an empty list returns at once, else the loop is entered.
ListCall ==
    /\ script = "old"
    /\ r_pc = "call"
    /\ IF testcase_list = <<>>
         THEN /\ r_pc' = "returned"
              /\ r_out' = Outcome("returned", FALSE, FALSE, "none", <<>>, 0)
              /\ r_i' = r_i
         ELSE /\ r_pc' = "find"
              /\ r_out' = r_out
              /\ r_i' = 1
    /\ UNCHANGED <<notWikiVars, wiki_username, page_envs, page_results, script,
                   environment, comment, allow_duplicate, sections, try_mode,
                   testcase_list, test, env, reported, failed, written>>

\* report_result, lines 61-102: the user name and the comment are checked,
\* the section and the row are looked up.
ReportFindTest ==
    /\ script = "old"
    /\ r_pc = "find"
    /\ r_i <= Len(testcase_list)
    /\ IF wiki_username = <<>>
            \/ (TestcaseComment # <<>> /\ CommentTooLong(TestcaseComment))
         THEN ListFailed("ValueError", <<>>)
         ELSE /\ test' = ReportFindRow(sections, testcase_list[r_i][1])
              /\ r_pc' = "env"
              /\ UNCHANGED <<r_i, env, reported, failed, written, r_out>>
    /\ UNCHANGED <<notWikiVars, wiki_username, page_envs, page_results, script,
                   environment, comment, allow_duplicate, sections, try_mode,
                   testcase_list>>

\* report_result, lines 104-123: the environment is resolved among the
\* columns of the row (no row: no columns, and no error here).
ReportResolveEnv ==
    /\ script = "old"
    /\ r_pc = "env"
    /\ LET envs == IF test # 0 THEN page_envs ELSE <<>>
           found == ReportEnv(envs, environment)
       IN  IF test # 0 /\ found = Unset
             THEN ListFailed("ValueError", envs)
             ELSE /\ env' = found
                  /\ r_pc' = "add"
                  /\ UNCHANGED <<r_i, test, reported, failed, written, r_out>>
    /\ UNCHANGED <<notWikiVars, wiki_username, page_envs, page_results, script,
                   environment, comment, allow_duplicate, sections, try_mode,
                   testcase_list>>

\* report_result, lines 125-183, and lines 252-256 of the loop: try mode
\* exits; else a missing row raises, an existing result of the user exits,
\* and the result is added.
ReportAddResult ==
    /\ script = "old"
    /\ r_pc = "add"
    /\ LET username == Lower(wiki_username)
           current_result == IF test # 0 /\ env # Unset
                               THEN page_results[test][ColumnOf(page_envs, env)]
                               ELSE <<>>
           cmt == IF TestcaseComment # <<>> THEN CommentString(TestcaseComment)
                  ELSE TestcaseComment
       IN  IF try_mode
             THEN ListExit(IF test # 0 /\ env # Unset /\ current_result # <<>>
                             THEN 1 ELSE 0)
           ELSE IF test = 0
             THEN ListFailed("ValueError", <<>>)
           ELSE IF \E k \in 1..Len(current_result) :
                      /\ current_result[k].user # NoUser
                      /\ current_result[k].user # <<>>
                      /\ Lower(current_result[k].user) = username
             THEN ListExit(1)
           ELSE \E ok \in BOOLEAN :
                  /\ written' = Append(written,
                                       AddResult(test, env, username, cmt, ok))
                  /\ IF ok
                       THEN /\ reported' = Append(reported, testcase_list[r_i][1])
                            /\ failed' = failed
                       ELSE /\ failed' = Append(failed,
                                   <<testcase_list[r_i][1], "Exception", <<>>>>)
                            /\ reported' = reported
                  /\ r_i' = r_i + 1
                  /\ r_pc' = "find"
                  /\ test' = 0
                  /\ env' = Unset
                  /\ r_out' = r_out
    /\ UNCHANGED <<notWikiVars, wiki_username, page_envs, page_results, script,
                   environment, comment, allow_duplicate, sections, try_mode,
                   testcase_list>>

\* Lines 258-264: the loop is over, the list of reported test cases returns.
ListReturn ==
    /\ script = "old"
    /\ r_pc = "find"
    /\ r_i > Len(testcase_list)
    /\ r_pc' = "returned"
    /\ r_out' = Outcome("returned", FALSE, reported # <<>>, "none", <<>>, 0)
    /\ UNCHANGED <<notWikiVars, wiki_username, page_envs, page_results, script,
                   environment, comment, allow_duplicate, sections, try_mode,
                   testcase_list, r_i, test, env, reported, failed, written>>

\* The lists report_testcase_list is given: (testcase_name, use_comment).
TestcaseLists ==
    { <<>>,
      << <<TestcaseA, TRUE>> >>,
      << <<TestcaseA, TRUE>>, <<TestcaseB, FALSE>> >>,
      << <<TestcaseB, FALSE>>, <<TestcaseA, TRUE>> >>,
      << <<TestcaseC, FALSE>>, <<TestcaseA, TRUE>> >> }

\* One run of a wiki writer on a page: modify_testcase_result for one test
\* case, or report_testcase_list for a list.
WikiInit ==
    /\ json_error_is_request_exc = FALSE
    /\ now = 0
    /\ FetchIdle
    /\ WaitOff
    /\ XunitOff
    /\ OverallOff
    /\ NormOff
    /\ MatchOff
    /\ wiki_username = UserBot
    /\ page_envs \in EnvColumns
    /\ \E first \in ExistingResults,
          others \in {<<>>, <<Result(UserBotUpper, NoComment)>>},
          column \in 1..2 :
            page_results = PageResults(first, others, column)
    /\ script \in {"NEW", "old"}
    /\ environment \in Environments
    /\ comment \in {NoComment, BlankComment, TextComment, TooLongComment}
    /\ allow_duplicate \in BOOLEAN
    /\ IF script = "NEW"
         THEN /\ r_pc = "find"
              /\ sections \in SectionFilters \cup {NoSections}
              /\ try_mode = FALSE
              /\ testcase_list \in {<< <<TestcaseA, TRUE>> >>, << <<TestcaseC, TRUE>> >>}
              /\ r_i = 1
         ELSE /\ r_pc = "call"
              /\ sections \in SectionFilters
              /\ try_mode \in BOOLEAN
              /\ testcase_list \in TestcaseLists
              /\ r_i = 0
    /\ test = 0
    /\ env = Unset
    /\ reported = <<>>
    /\ failed = <<>>
    /\ written = <<>>
    /\ r_out = NoOutcome
    /\ MainOff
    /\ ReportOff
    /\ ImageOff

WikiNext ==
    \/ ModifyFindTest
    \/ ModifyResolveEnv
    \/ ModifyAddResult
    \/ ListCall
    \/ ReportFindTest
    \/ ReportResolveEnv
    \/ ReportAddResult
    \/ ListReturn

WikiSpec == WikiInit /\ [][WikiNext]_vars

(***************************************************************************)
(* Properties of the wiki writers (checked under WikiSpec)                 *)
(***************************************************************************)
\* The existing results of the row and environment the call resolved.
ResolvedResults == page_results[test][ColumnOf(page_envs, env)]
Resolved == test # 0 /\ env # Unset

\* The resolved environment holds a result of the submitting user, the
\* names compared ignoring case.
SameUserResultExists ==
    \E k \in 1..Len(ResolvedResults) :
        /\ ResolvedResults[k].user # NoUser
        /\ Lower(ResolvedResults[k].user) = Lower(wiki_username)

\* C16: when the resolved environment of the row already holds a result of
\* the submitting user (ignoring case) and allow_duplicate is False,
\* modify_testcase_result returns testcase_found=True, result_added=False
\* and never calls page.add_result.
C16_DuplicateIsNotAdded ==
    (script = "NEW" /\ Resolved /\ SameUserResultExists /\ ~allow_duplicate)
      => /\ written = <<>>
         /\ r_pc # "add" =>
               r_out = Outcome("returned", TRUE, FALSE, "none", <<>>, 0)

\* The call returned on a result whose user differs from the wiki user name
\* in case only.
C16_Witness ==
    /\ script = "NEW"
    /\ r_pc = "returned"
    /\ Resolved
    /\ ~allow_duplicate
    /\ ResolvedResults = <<Result(UserBotUpper, NoComment)>>
    /\ wiki_username = UserBot
    /\ r_out.testcase_found
    /\ ~r_out.result_added

\* C17 as stated: one existing entry with a non-empty comment makes a
\* submission with a non-empty comment be written with an empty comment.
C17_NonEmptyCommentSuppresses ==
    (/\ script = "NEW"
     /\ written # <<>>
     /\ Len(ResolvedResults) = 1
     /\ ResolvedResults[1].comment # <<>>
     /\ comment # <<>>)
      => written[1].comment = <<>>

\* C17: one existing entry whose comment is not empty after stripping
\* white space makes a submission with a non-empty comment be written with
\* an empty comment.
C17_NonBlankCommentSuppresses ==
    (/\ script = "NEW"
     /\ written # <<>>
     /\ Len(ResolvedResults) = 1
     /\ Strip(ResolvedResults[1].comment) # <<>>
     /\ comment # <<>>)
      => written[1].comment = <<>>

\* A result with a comment was on the page; the submission brought a
\* comment and was written without it.
C17_Witness ==
    /\ script = "NEW"
    /\ written # <<>>
    /\ ResolvedResults = <<Result(UserEve, TextComment)>>
    /\ comment = TextComment
    /\ written[1].comment = <<>>

\* The resolution as stated: the requested name when it is a column, else
\* the first column equal to it ignoring case, else none.
StatedEnv ==
    IF \E j \in 1..Len(page_envs) : page_envs[j] = environment THEN environment
    ELSE IF \E j \in 1..Len(page_envs) : Lower(page_envs[j]) = Lower(environment)
      THEN page_envs[Min({j \in 1..Len(page_envs) :
                             Lower(page_envs[j]) = Lower(environment)})]
    ELSE Unset

\* The call ends with a ValueError that names the columns of the row.
RaisesNamingEnvironments ==
    IF script = "NEW"
      THEN r_out' = Outcome("raised", FALSE, FALSE, "ValueError", page_envs, 0)
      ELSE failed' = Append(failed,
                            <<testcase_list[r_i][1], "ValueError", page_envs>>)

\* C18: in both functions, once the row is found, the environment chosen is
\* the requested name when the row has it, else the first one equal to it
\* ignoring case; when there is neither, the call raises a ValueError naming
\* the available environments and writes no result.
C18_EnvironmentResolution ==
    [][(r_pc = "env" /\ test # 0)
         => IF StatedEnv = Unset
              THEN RaisesNamingEnvironments /\ written' = written
              ELSE env' = StatedEnv /\ r_pc' = "add"]_vars

\* The requested name is no column and the first of two columns equal to
\* it ignoring case was chosen.
C18_Witness ==
    /\ r_pc = "add"
    /\ test # 0
    /\ page_envs = <<EnvEc2Upper, EnvEc2Mixed>>
    /\ environment = EnvEc2Lower
    /\ env = EnvEc2Upper

\* C20: in report_results_noninteractive.py an existing result of the same
\* user is a non-fatal outcome: outside try mode report_result never ends
\* the process, and report_testcase_list handles every test case of its
\* list before it returns.
C20_DuplicateIsNotFatal ==
    (script = "old" /\ ~try_mode)
      => /\ r_pc # "exited"
         /\ r_pc = "returned" => Len(reported) + Len(failed) = Len(testcase_list)

(***************************************************************************)
(* main of tft-wait.py, lines 250-278: the request, the wait, the printed  *)
(* lines and the exit status.                                              *)
(***************************************************************************)
\* time.sleep(10) of test_request, after the testing-farm command ended.
RequestSleep == 10

\* What test_request does: it returns the API URL, it returns None (any
\* failure inside its try block), or it raises ValueError before the try
\* block because TESTING_FARM_API_TOKEN is not set.
RequestOutcomes == {"url", "None", "ValueError"}

\* sys.exit(0 if final_state == 'complete' else 1)
ExitCodeAlwaysOne(final_state) == 1
ExitCode(final_state) == IF final_state = "complete" THEN 0 ELSE 1

\* result_url = test_request(...), then the branch taken: the wait begins,
\* or the four lines are printed and the process exits with 1; an uncaught
\* ValueError ends the process with nothing printed.
MainRequest ==
    /\ d_pc = "request"
    /\ \E outcome \in RequestOutcomes :
         /\ result_url' = outcome
         /\ CASE outcome = "url" ->
                   /\ d_pc' = "waiting"
                   /\ now' = now + RequestSleep
                   /\ w_pc' = "top"
                   /\ start_time' = now'
                   /\ UNCHANGED <<printed_final_state, printed_results, exit_code>>
              [] outcome = "None" ->
                   /\ d_pc' = "exited"
                   /\ printed_final_state' = "failed"
                   /\ printed_results' = "warn"
                   /\ exit_code' = 1
                   /\ UNCHANGED <<now, w_pc, start_time>>
              [] outcome = "ValueError" ->
                   /\ d_pc' = "exited"
                   \* the interpreter ends with status 1 on an uncaught exception
                   /\ exit_code' = 1
                   /\ UNCHANGED <<now, w_pc, start_time, printed_final_state,
                                  printed_results>>
    /\ UNCHANGED <<notMainVars, fetchVars, check_interval, deadline_hundredths,
                   elapsed, w_ret, w_final_calls>>

\* wait_for_completion has returned: get_artifacts_url and get_results ask
\* the endpoint once more, the lines are printed and the process exits.
MainExit ==
    /\ d_pc = "waiting"
    /\ w_pc = "done"
    /\ LET final_state == w_ret.state
       IN  /\ printed_final_state' = final_state
           /\ \E resp \in OverallResponses : printed_results' = GetResults(resp)
           /\ exit_code' = ExitCode(final_state)
    /\ d_pc' = "exited"
    /\ UNCHANGED <<notMainVars, now, fetchVars, waitVars, result_url>>

\* The driver with its arguments parsed, before the request is sent.
MainInit ==
    /\ json_error_is_request_exc \in BOOLEAN
    /\ now = 0
    /\ FetchIdle
    /\ w_pc = "off"
    /\ check_interval \in 1..MaxCheckInterval
    /\ deadline_hundredths \in 0..MaxDeadlineHundredths
    /\ start_time = 0
    /\ elapsed = 0
    /\ w_ret = NoReturn
    /\ w_final_calls = 0
    /\ XunitOff
    /\ OverallOff
    /\ NormOff
    /\ MatchOff
    /\ WikiOff
    /\ ReportOff
    /\ ImageOff
    /\ d_pc = "request"
    /\ result_url = Unset
    /\ printed_final_state = Unset
    /\ printed_results = Unset
    /\ exit_code = -1

MainNext ==
    \/ MainRequest
    \/ WaitLoopTop
    \/ FetchRequest
    \/ FetchSleep
    \/ WaitFinalResult
    \/ WaitPollResult
    \/ WaitSleep
    \/ MainExit

MainSpec == MainInit /\ [][MainNext]_vars

\* The state that decides the exit status: the one wait_for_completion
\* returned, 'failed' when the request was not submitted.
DecidingState ==
    CASE result_url = "url" -> w_ret.state
      [] result_url = "None" -> "failed"
      [] OTHER -> Unset

\* C19: the driver exits with 0 exactly when wait_for_completion returned
\* 'complete' and with 1 in every other case, a request that was not
\* submitted included; the state of the printed final_state line is the
\* state that decided the exit status.
C19_ExitCodeFollowsFinalState ==
    d_pc = "exited" =>
        /\ exit_code \in {0, 1}
        /\ exit_code = 0 <=> (result_url = "url" /\ w_ret.state = "complete")
        /\ printed_final_state = DecidingState

\* The deadline passed on a job that is still running: 'running' is
\* printed and the exit status is 1.
C19_Witness ==
    /\ d_pc = "exited"
    /\ result_url = "url"
    /\ w_ret.state = "running"
    /\ printed_final_state = "running"
    /\ exit_code = 1

\* The sections a call keeps: for modify_testcase_result every section that
\* passes the filter, for report_result the first section that matches.
SurvivingSections ==
    IF script = "NEW"
      THEN {i \in 1..Len(PageSections) :
              \/ sections = NoSections
              \/ /\ sections # <<>>
                 /\ \/ Contains(sections, PageSections[i].line)
                    \/ Contains(PageSections[i].line, sections)}
      ELSE LET m == {i \in 1..Len(PageSections) :
                       \/ Contains(sections, PageSections[i].line)
                       \/ Contains(PageSections[i].line, sections)}
           IN  {i \in m : \A j \in m : i <= j}

\* No row of a surviving section has exactly the test case of the call.
UnknownTestcase ==
    ~ \E k \in 1..Len(PageRows), i \in SurvivingSections :
          /\ PageRows[k].secid = PageSections[i].index
          /\ PageRows[k].testcase = testcase_list[r_i][1]

\* The step of report_result that follows the lookups (outside try mode):
\* the ValueError "not found" reaches report_testcase_list, nothing written.
ReportRaisesNotFound ==
    (script = "old" /\ r_pc = "add" /\ ~try_mode /\ UnknownTestcase)
      => /\ failed' = Append(failed, <<testcase_list[r_i][1], "ValueError", <<>>>>)
         /\ written' = written

\* C21 as stated: an unknown test case is raised as an error by report_result
\* (outside try mode) and by modify_testcase_result, and nothing is written.
C21_UnknownTestcaseIsRaised ==
    [][/\ ReportRaisesNotFound
       /\ (script = "NEW" /\ r_pc = "find" /\ UnknownTestcase)
            => /\ r_pc' = "raised"
               /\ written' = written]_vars

\* C21: an unknown test case writes nothing; report_result (outside try
\* mode) raises a ValueError for it, modify_testcase_result returns
\* testcase_found=False, result_added=False without raising.
C21_UnknownTestcaseWritesNothing ==
    [][/\ ReportRaisesNotFound
       /\ (script = "NEW" /\ r_pc = "find" /\ UnknownTestcase)
            => /\ r_pc' = "returned"
               /\ r_out' = Outcome("returned", FALSE, FALSE, "none", <<>>, 0)
               /\ written' = written]_vars

\* modify_testcase_result returned for a test case that has a row on the
\* page, but in no section that passes the filter.
C21_Witness ==
    /\ script = "NEW"
    /\ r_pc = "returned"
    /\ testcase_list[1][1] = TestcaseA
    /\ sections = <<"z", "z">>
    /\ UnknownTestcase
    /\ r_out = Outcome("returned", FALSE, FALSE, "none", <<>>, 0)
    /\ written = <<>>

(***************************************************************************)
(* Repeated submissions: modify_testcase_result is called again and again  *)
(* with allow_duplicate=True for one test case and environment of a page   *)
(* that had no results.                                                    *)
(***************************************************************************)
\* At most this many calls in one behaviour.
MaxSubmissions == 3

\* The caller calls modify_testcase_result once more, with or without a
\* comment; r_i counts the calls.
ModifyCall ==
    /\ script = "NEW"
    /\ r_pc \in {"returned", "raised"}
    /\ r_i < MaxSubmissions
    /\ r_i' = r_i + 1
    /\ r_pc' = "find"
    /\ comment' \in {NoComment, BlankComment, TextComment}
    /\ test' = 0
    /\ env' = Unset
    /\ r_out' = NoOutcome
    /\ UNCHANGED <<notWikiVars, wiki_username, page_envs, page_results, script,
                   environment, allow_duplicate, sections, try_mode,
                   testcase_list, reported, failed, written>>

SubmitInit ==
    /\ json_error_is_request_exc = FALSE
    /\ now = 0
    /\ FetchIdle
    /\ WaitOff
    /\ XunitOff
    /\ OverallOff
    /\ NormOff
    /\ MatchOff
    /\ MainOff
    /\ ReportOff
    /\ ImageOff
    /\ wiki_username = UserBot
    /\ page_envs \in EnvColumns
    /\ page_results = PageResults(<<>>, <<>>, 1)
    /\ script = "NEW"
    /\ environment \in Environments
    /\ comment \in {NoComment, BlankComment, TextComment}
    /\ allow_duplicate = TRUE
    /\ r_pc = "find"
    /\ sections \in {NoSections, <<"x">>}
    /\ try_mode = FALSE
    /\ testcase_list = << <<TestcaseA, TRUE>> >>
    /\ r_i = 1
    /\ test = 0
    /\ env = Unset
    /\ reported = <<>>
    /\ failed = <<>>
    /\ written = <<>>
    /\ r_out = NoOutcome

SubmitNext ==
    \/ ModifyFindTest
    \/ ModifyResolveEnv
    \/ ModifyAddResult
    \/ ModifyCall

SubmitSpec == SubmitInit /\ [][SubmitNext]_vars

\* The entries of the row and environment that carry a comment.
CommentedEntries(row, envname) ==
    {k \in 1..Len(CurrentResults(row, envname)) :
        CurrentResults(row, envname)[k].comment # <<>>}

\* C22: after any sequence of submissions with allow_duplicate=True to a
\* row and environment that had no results, at most one entry of them
\* carries a non-empty comment.
C22_AtMostOneComment ==
    \A row \in 1..Len(PageRows), j \in 1..Len(page_envs) :
        Cardinality(CommentedEntries(row, page_envs[j])) <= 1

(***************************************************************************)
(* main of the reporting scripts: report_results_noninteractiveNEW.py run  *)
(* with --api-url, and report_results_noninteractive.py.                   *)
(***************************************************************************)
\* The test-suite names of the reports given to main.
NameCloudA == <<"/", "p", "l", "a", "n", "s", "/", "c", "l", "o", "u", "d", "/", "T", "e", "s", "t", "c", "a", "s", "e", "_", "A">>
NameOtherA == <<"/", "p", "l", "a", "n", "s", "/", "o", "t", "h", "e", "r", "/", "T", "e", "s", "t", "c", "a", "s", "e", "_", "A">>
NameCloudB == <<"/", "p", "l", "a", "n", "s", "/", "c", "l", "o", "u", "d", "/", "T", "e", "s", "t", "c", "a", "s", "e", "_", "B">>

\* xunit_data['xunit_xml_root'] as fetch_and_cache_xunit_xml returned it.
ReportDocs ==
    { NoRoot,
      Root(<<>>),
      Root(<<Suite(NameCloudA, "passed")>>),
      Root(<<Suite(NameOtherA, "failed")>>),
      Root(<<Suite(NameCloudB, "error")>>),
      Root(<<Suite(NameCloudA, "passed"), Suite(NameCloudB, "failed")>>),
      Root(<<Suite(NameOtherA, "passed"), Suite(NameCloudB, "")>>) }

\* The fmf plan tag main passes to the matcher (line 829).
CloudTag == <<"c", "l", "o", "u", "d">>

\* sections_for_functions = [sections_arg] if sections_arg else None
SectionsForFunctions == IF arg_sections = <<>> THEN NoSections ELSE arg_sections

\* get_testcases: the test cases of the rows of every section that passes
\* the filter, section by section.
RECURSIVE TestcasesFrom(_, _)
TestcasesFrom(filter, i) ==
    IF i > Len(PageSections) THEN <<>>
    ELSE LET section_tests ==
                 SelectSeq(PageRows, LAMBDA t : t.secid = PageSections[i].index)
             names == [k \in 1..Len(section_tests) |-> section_tests[k].testcase]
         IN  (IF ModifySectionSelected(filter, PageSections[i].line)
                THEN names ELSE <<>>)
               \o TestcasesFrom(filter, i + 1)
GetTestcases(filter) == TestcasesFrom(filter, 1)

\* result = match_result['testcase_result'] or 'unknown', then the mapping
\* of lines 838-842.
WikiStatus(result) ==
    IF result = "passed" THEN "pass"
    ELSE IF result = "failed" THEN "fail"
    ELSE "warn"

\* Lines 848-855 (comment_added is False when the call is reached).
CommentToUse ==
    IF comment_added THEN <<>>
    ELSE IF arg_comment # <<>> THEN arg_comment
    ELSE xunit_artifacts_url

\* Line 845: if not args.try_mode
AddsInAnyMode(try) == TRUE
AddsResults(try) == ~try

\* Line 815: the list of test cases is read from the page.
ReportGetTestcases ==
    /\ script = "NEW"
    /\ p_pc = "start"
    /\ testcases' = GetTestcases(SectionsForFunctions)
    /\ p_i' = 1
    /\ p_pc' = "loop"
    /\ UNCHANGED <<notReportVars, matchVars, wikiVars, arg_sections, arg_comment,
                   xunit_artifacts_url, match_result, wiki_status,
                   comment_added, modified>>

\* Lines 828-829: one iteration of "for qatestcase in testcases" calls the
\* matcher.
ReportMatchCall ==
    /\ script = "NEW"
    /\ p_pc = "loop"
    /\ p_i <= Len(testcases)
    /\ p_pc' = "matching"
    /\ m_pc' = "name"
    /\ m_qatestcase' = testcases[p_i]
    /\ m_tag' = CloudTag
    /\ m_i' = 0
    /\ testcase_name' = <<>>
    /\ qatestcase_found' = FALSE
    /\ fmf_plan_name_found' = FALSE
    /\ matching_test_plans' = <<>>
    /\ testcase_result' = None
    /\ m_ret' = NoMatchResult
    /\ UNCHANGED <<notReportVars, wikiVars, m_xunit_data, arg_sections,
                   arg_comment, xunit_artifacts_url, testcases, p_i,
                   match_result, wiki_status, comment_added, modified>>

\* Line 829: the matcher has returned, match_result is bound to its dict and
\* the loop goes on.
ReportMatchReturn ==
    /\ script = "NEW"
    /\ p_pc = "matching"
    /\ m_pc = "returned"
    /\ match_result' = m_ret
    /\ p_i' = p_i + 1
    /\ p_pc' = "loop"
    /\ UNCHANGED <<notReportVars, matchVars, wikiVars, arg_sections, arg_comment,
                   xunit_artifacts_url, testcases, wiki_status, comment_added,
                   modified>>

\* Lines 830-872, which follow the loop: match_result is read (not bound
\* when the loop had no iteration: UnboundLocalError); when its test case
\* was found, the status is mapped and, outside try mode,
\* modify_testcase_result is called for the last qatestcase of the loop.
ReportAfterLoop ==
    /\ script = "NEW"
    /\ p_pc = "loop"
    /\ p_i > Len(testcases)
    /\ IF match_result = NoMatchResult
         THEN /\ p_pc' = "raised"
              /\ UNCHANGED <<wiki_status, modified, r_pc, comment, sections,
                             testcase_list, r_i, test, env, r_out>>
       ELSE IF match_result.qatestcase_found
         THEN /\ wiki_status' =
                   WikiStatus(IF match_result.testcase_result \in {None, ""}
                                THEN "unknown"
                                ELSE match_result.testcase_result)
              /\ IF AddsResults(try_mode)
                   THEN /\ p_pc' = "modify"
                        /\ modified' = Append(modified, testcases[Len(testcases)])
                        /\ testcase_list' = << <<testcases[Len(testcases)], TRUE>> >>
                        /\ sections' = SectionsForFunctions
                        /\ comment' = CommentToUse
                        /\ r_pc' = "find"
                        /\ r_i' = 1
                        /\ test' = 0
                        /\ env' = Unset
                        /\ r_out' = NoOutcome
                   ELSE /\ p_pc' = "ended"
                        /\ UNCHANGED <<modified, r_pc, comment, sections,
                                       testcase_list, r_i, test, env, r_out>>
         ELSE /\ p_pc' = "ended"
              /\ UNCHANGED <<wiki_status, modified, r_pc, comment, sections,
                             testcase_list, r_i, test, env, r_out>>
    /\ UNCHANGED <<notReportVars, matchVars, wiki_username, page_envs,
                   page_results, script, environment, allow_duplicate, try_mode,
                   reported, failed, written, arg_sections, arg_comment,
                   xunit_artifacts_url, testcases, p_i, match_result,
                   comment_added>>

\* Lines 874-889: modify_testcase_result has returned or raised (the except
\* clause logs the exception), and main ends.
ReportModifyDone ==
    /\ script = "NEW"
    /\ p_pc = "modify"
    /\ r_pc \in {"returned", "raised"}
    /\ comment_added' = (r_pc = "returned" /\ r_out.result_added /\ comment # <<>>)
    /\ p_pc' = "ended"
    /\ UNCHANGED <<notReportVars, matchVars, wikiVars, arg_sections, arg_comment,
                   xunit_artifacts_url, testcases, p_i, match_result,
                   wiki_status, modified>>

\* report_results_noninteractive.py, lines 325-346: one iteration of
\* "for section in sections" calls report_testcase_list.
OldMainSection ==
    /\ script = "old"
    /\ p_pc = "loop"
    /\ p_i <= Len(arg_sections)
    /\ p_pc' = "list"
    /\ sections' = arg_sections[p_i]
    /\ r_pc' = "call"
    /\ r_i' = 0
    /\ test' = 0
    /\ env' = Unset
    /\ reported' = <<>>
    /\ failed' = <<>>
    /\ r_out' = NoOutcome
    /\ UNCHANGED <<notReportVars, matchVars, wiki_username, page_envs,
                   page_results, script, environment, comment, allow_duplicate,
                   try_mode, testcase_list, written, arg_sections, arg_comment,
                   xunit_artifacts_url, testcases, p_i, match_result,
                   wiki_status, comment_added, modified>>

\* Lines 347-348: report_testcase_list has returned.
OldMainSectionDone ==
    /\ script = "old"
    /\ p_pc = "list"
    /\ r_pc = "returned"
    /\ p_i' = p_i + 1
    /\ p_pc' = "loop"
    /\ UNCHANGED <<notReportVars, matchVars, wikiVars, arg_sections, arg_comment,
                   xunit_artifacts_url, testcases, match_result, wiki_status,
                   comment_added, modified>>

\* Lines 354-356: the sections are done, the summary is printed.
OldMainEnd ==
    /\ script = "old"
    /\ p_pc = "loop"
    /\ p_i > Len(arg_sections)
    /\ p_pc' = "ended"
    /\ UNCHANGED <<notReportVars, matchVars, wikiVars, arg_sections, arg_comment,
                   xunit_artifacts_url, testcases, p_i, match_result,
                   wiki_status, comment_added, modified>>

\* One run of main of either script on a page.
ReportInit ==
    /\ json_error_is_request_exc = FALSE
    /\ now = 0
    /\ FetchIdle
    /\ WaitOff
    /\ XunitOff
    /\ OverallOff
    /\ NormOff
    /\ MainOff
    /\ ImageOff
    /\ m_pc = "off"
    /\ m_qatestcase = <<>>
    /\ m_tag = <<>>
    /\ m_i = 0
    /\ testcase_name = <<>>
    /\ qatestcase_found = FALSE
    /\ fmf_plan_name_found = FALSE
    /\ matching_test_plans = <<>>
    /\ testcase_result = None
    /\ m_ret = NoMatchResult
    /\ wiki_username = UserBot
    /\ page_envs \in {<<EnvEc2Upper, EnvEc2Lower>>, <<EnvKvm>>}
    /\ \E first \in {<<>>, <<Result(UserBotUpper, TextComment)>>,
                     <<Result(UserEve, NoComment)>>} :
          page_results = PageResults(first, <<>>, 1)
    /\ script \in {"NEW", "old"}
    /\ environment = EnvEc2Lower
    /\ allow_duplicate = TRUE
    /\ try_mode \in BOOLEAN
    /\ arg_comment \in {NoComment, TextComment}
    /\ r_pc = "off"
    /\ r_i = 0
    /\ test = 0
    /\ env = Unset
    /\ reported = <<>>
    /\ failed = <<>>
    /\ written = <<>>
    /\ r_out = NoOutcome
    /\ testcases = <<>>
    /\ match_result = NoMatchResult
    /\ wiki_status = Unset
    /\ comment_added = FALSE
    /\ modified = <<>>
    /\ IF script = "NEW"
         THEN /\ p_pc = "start"
              /\ p_i = 0
              /\ m_xunit_data \in ReportDocs
              /\ xunit_artifacts_url \in {<<>>, <<"u">>}
              /\ arg_sections \in SectionFilters \cup {<<>>}
              /\ sections = <<>>
              /\ comment = <<>>
              /\ testcase_list = <<>>
         ELSE /\ p_pc = "loop"
              /\ p_i = 1
              /\ m_xunit_data = NoRoot
              /\ xunit_artifacts_url = <<>>
              /\ arg_sections \in { << <<"x", "8", "6", "_", "6", "4">> >>,
                                    << <<"x", "8", "6", "_", "6", "4">>, <<"a", "r", "m">> >>,
                                    << <<"z", "z">>, <<"a", "r", "m">> >> }
              /\ sections = <<>>
              /\ comment = arg_comment
              /\ testcase_list \in TestcaseLists \ {<<>>}

ReportNext ==
    \/ ReportGetTestcases
    \/ ReportMatchCall
    \/ MatchName
    \/ MatchSuite
    \/ MatchReturn
    \/ ReportMatchReturn
    \/ ReportAfterLoop
    \/ ModifyFindTest
    \/ ModifyResolveEnv
    \/ ModifyAddResult
    \/ ReportModifyDone
    \/ OldMainSection
    \/ ListCall
    \/ ReportFindTest
    \/ ReportResolveEnv
    \/ ReportAddResult
    \/ ListReturn
    \/ OldMainSectionDone
    \/ OldMainEnd

ReportSpec == ReportInit /\ [][ReportNext]_vars

(***************************************************************************)
(* Properties of main of the reporting scripts (checked under ReportSpec)  *)
(***************************************************************************)
\* The report has a test suite under /plans/ with the normalised name of the
\* test case among the elements of its path.
FoundInReport(qatestcase) ==
    /\ m_xunit_data.parsed
    /\ \E k \in 1..Len(m_xunit_data.suites) :
          /\ StartsWith(m_xunit_data.suites[k].name, PlansPrefix)
          /\ \E e \in 1..Len(PathElements(m_xunit_data.suites[k].name)) :
                PathElements(m_xunit_data.suites[k].name)[e]
                  = TestcaseName(qatestcase)

\* C23: main of report_results_noninteractiveNEW.py, run with --api-url and
\* without --try, ends normally for every list get_testcases returns, and
\* has then called modify_testcase_result once for each test case of the
\* list that is found in the report, in the order of the list.
C23_EveryFoundTestcaseIsModified ==
    (script = "NEW" /\ ~try_mode)
      => /\ p_pc # "raised"
         /\ p_pc = "ended" => modified = SelectSeq(testcases, FoundInReport)

\* C24: in try mode no run of either reporting script calls
\* page.add_result, whatever the page holds and the report says.
C24_TryModeWritesNothing ==
    try_mode => written = <<>> /\ modified = <<>>

\* A try-mode run of the newer script ended on a test case the report has
\* as passed, and nothing was written.
C24_Witness ==
    /\ script = "NEW"
    /\ try_mode
    /\ p_pc = "ended"
    /\ match_result.qatestcase_found
    /\ wiki_status = "pass"
    /\ written = <<>>

(***************************************************************************)
(* get_image_names.py: get_image_names_for_version.                        *)
(***************************************************************************)
\* f"{version}" for a release number.
Digits == <<"0", "1", "2", "3", "4", "5", "6", "7", "8", "9">>
RECURSIVE Str(_)
Str(n) ==
    IF n < 10 THEN <<Digits[n + 1]>>
    ELSE Str(n \div 10) \o <<Digits[(n % 10) + 1]>>

\* A message of datagrepper: with or without 'msg', its image_name
\* (NoImageName: none), with or without 'timestamp'.
Message(has_msg, image_name, has_timestamp, timestamp) ==
    [has_msg |-> has_msg, image_name |-> image_name,
     has_timestamp |-> has_timestamp, timestamp |-> timestamp]

MessagePool ==
    { Message(TRUE, <<"F", "-", "4", "3", "-", "1">>, TRUE, 2),
      Message(TRUE, <<"F", "-", "4", "3", ".", "2">>, TRUE, 2),
      Message(TRUE, <<"F", "-", "4", "3", "-", "3">>, TRUE, 1),
      Message(TRUE, <<"F", "-", "4", "3", "-", "4">>, FALSE, 0),
      Message(TRUE, <<"F", "-", "4", "2", "-", "1">>, TRUE, 3),
      Message(TRUE, <<"F", "-", "R", "a", "w", "h", "i", "d", "e", "-", "1">>, TRUE, 1),
      Message(TRUE, <<"F", "-", "R", "A", "W", "H", "I", "D", "E", "-", "2">>, TRUE, 2),
      Message(TRUE, <<>>, TRUE, 3),
      Message(FALSE, NoImageName, TRUE, 3) }

\* At most this many messages in all.
MaxMessages == 2

RECURSIVE MessageLists(_)
MessageLists(n) ==
    IF n = 0 THEN {<<>>}
    ELSE LET shorter == MessageLists(n - 1)
         IN  shorter \cup {<<m>> \o l : m \in MessagePool, l \in shorter}

ImageVersions == {Version(TRUE, 0), Version(FALSE, 43), Version(FALSE, 42)}

\* Lines 69-75: the image name is one of the version.
VersionMatches(version, image_name) ==
    IF version.rawhide
      THEN \/ Contains(<<"R", "a", "w", "h", "i", "d", "e">>, image_name)
           \/ Contains(<<"r", "a", "w", "h", "i", "d", "e">>, Lower(image_name))
      ELSE \/ Contains(<<"-">> \o Str(version.number) \o <<"-">>, image_name)
           \/ Contains(<<"-">> \o Str(version.number) \o <<".">>, image_name)

\* timestamp = msg.get('timestamp', 0)
MsgTimestamp(msg) == IF msg.has_timestamp THEN msg.timestamp ELSE 0

\* Line 79: if timestamp > latest_timestamp
IsLaterOrEqual(timestamp, latest) == timestamp >= latest
IsLater(timestamp, latest) == timestamp > latest

\* Lines 64-81: one message of the topic.
ImageMessage ==
    /\ i_pc = "loop"
    /\ i_t <= Len(i_topics)
    /\ i_k <= Len(i_topics[i_t])
    /\ LET msg == i_topics[i_t][i_k]
       IN  IF /\ msg.has_msg
              /\ msg.image_name # NoImageName
              /\ msg.image_name # <<>>
              /\ VersionMatches(i_version, msg.image_name)
              /\ IsLater(MsgTimestamp(msg), latest_timestamp)
             THEN /\ latest_timestamp' = MsgTimestamp(msg)
                  /\ latest_image_name' = msg.image_name
             ELSE UNCHANGED <<latest_timestamp, latest_image_name>>
    /\ i_k' = i_k + 1
    /\ UNCHANGED <<notImageVars, i_pc, i_version, i_topics, i_t, i_ret>>

\* Lines 61-62: the messages of the topic are done, the next topic is
\* queried.
ImageNextTopic ==
    /\ i_pc = "loop"
    /\ i_t <= Len(i_topics)
    /\ i_k > Len(i_topics[i_t])
    /\ i_t' = i_t + 1
    /\ i_k' = 1
    /\ UNCHANGED <<notImageVars, i_pc, i_version, i_topics, latest_image_name,
                   latest_timestamp, i_ret>>

\* Line 83: return [latest_image_name] if latest_image_name else []
ImageReturn ==
    /\ i_pc = "loop"
    /\ i_t > Len(i_topics)
    /\ i_pc' = "returned"
    /\ i_ret' = IF latest_image_name # NoImageName /\ latest_image_name # <<>>
                  THEN <<latest_image_name>> ELSE <<>>
    /\ UNCHANGED <<notImageVars, i_version, i_topics, i_t, i_k,
                   latest_image_name, latest_timestamp>>

\* One call: Rawhide queries two topics, a release number one (lines
\* 50-56); the messages are what query_datagrepper returns for each.
ImageInit ==
    /\ json_error_is_request_exc = FALSE
    /\ now = 0
    /\ FetchIdle
    /\ WaitOff
    /\ XunitOff
    /\ OverallOff
    /\ NormOff
    /\ MatchOff
    /\ WikiOff
    /\ MainOff
    /\ ReportOff
    /\ i_pc = "loop"
    /\ i_version \in ImageVersions
    /\ \E l \in MessageLists(MaxMessages) :
          IF i_version.rawhide
            THEN \E cut \in 0..Len(l) :
                    i_topics = <<SubSeq(l, 1, cut), SubSeq(l, cut + 1, Len(l))>>
            ELSE i_topics = <<l>>
    /\ i_t = 1
    /\ i_k = 1
    /\ latest_image_name = NoImageName
    /\ latest_timestamp = 0
    /\ i_ret = <<>>

ImageNext ==
    \/ ImageMessage
    \/ ImageNextTopic
    \/ ImageReturn

ImageSpec == ImageInit /\ [][ImageNext]_vars

(***************************************************************************)
(* Properties of get_image_names_for_version (checked under ImageSpec)     *)
(***************************************************************************)
\* The messages of the queried topics, in the order they are looked at.
QueriedMessages ==
    IF Len(i_topics) = 2 THEN i_topics[1] \o i_topics[2] ELSE i_topics[1]

\* The message has an image_name that matches the version: '-<version>-' or
\* '-<version>.' is in the name, or 'rawhide' ignoring case for Rawhide.
NameMatchesVersion(m) ==
    /\ m.has_msg
    /\ m.image_name # NoImageName
    /\ m.image_name # <<>>
    /\ IF i_version.rawhide
         THEN Contains(<<"r", "a", "w", "h", "i", "d", "e">>, Lower(m.image_name))
         ELSE \/ Contains(<<"-">> \o Str(i_version.number) \o <<"-">>, m.image_name)
              \/ Contains(<<"-">> \o Str(i_version.number) \o <<".">>, m.image_name)

MatchingMessages ==
    {k \in 1..Len(QueriedMessages) : NameMatchesVersion(QueriedMessages[k])}

\* The matching messages that carry a timestamp greater than 0.
DatedMatchingMessages ==
    {k \in MatchingMessages :
        /\ QueriedMessages[k].has_timestamp
        /\ QueriedMessages[k].timestamp > 0}

\* C25 as stated: the empty list exactly when no message matches the
\* version, else the one image_name of a matching message with the greatest
\* timestamp.
C25_LatestMatchingImageName ==
    i_pc = "returned"
      => IF MatchingMessages = {}
           THEN i_ret = <<>>
           ELSE /\ Len(i_ret) = 1
                /\ \E k \in MatchingMessages :
                      /\ QueriedMessages[k].image_name = i_ret[1]
                      /\ \A o \in DatedMatchingMessages :
                            QueriedMessages[o].timestamp
                              <= QueriedMessages[k].timestamp

\* C25: get_image_names_for_version returns the empty list exactly when no
\* matching message carries a timestamp greater than 0, and else the one
\* image_name of the first message, in the order of the queries, among the
\* matching ones with the greatest timestamp.
C25_LatestDatedMatchingImageName ==
    i_pc = "returned"
      => IF DatedMatchingMessages = {}
           THEN i_ret = <<>>
           ELSE LET greatest ==
                      {k \in DatedMatchingMessages :
                          \A o \in DatedMatchingMessages :
                              QueriedMessages[o].timestamp
                                <= QueriedMessages[k].timestamp}
                IN  i_ret = <<QueriedMessages[Min(greatest)].image_name>>

\* Rawhide: the second topic held the later of two matching messages.
C25_Witness ==
    /\ i_pc = "returned"
    /\ i_version.rawhide
    /\ Len(i_topics[1]) = 1
    /\ Len(i_topics[2]) = 1
    /\ MatchingMessages = {1, 2}
    /\ QueriedMessages[1].timestamp < QueriedMessages[2].timestamp
    /\ i_ret = <<QueriedMessages[2].image_name>>

(***************************************************************************)
(* Further properties of fetch_and_cache_xunit_xml (checked under          *)
(* XunitSpec)                                                              *)
(***************************************************************************)
\* C26: with a cache dict, when a call of fetch_and_cache_xunit_xml has
\* returned, cache[api_url] is the returned record; no step of a call
\* changes or removes the entry of another URL; and a call for a URL whose
\* entry is the 'warn' placeholder returns the placeholder without a
\* request, whatever the endpoint would answer.
C26_CacheHoldsTheReturnedRecord ==
    /\ []( (cache_used /\ x_pc = "returned")
             => x_url \in DOMAIN cache /\ cache[x_url] = x_ret )
    /\ [][ cache_used
             => \A u \in ApiUrls \ {x_url'} :
                   /\ u \in DOMAIN cache' <=> u \in DOMAIN cache
                   /\ u \in DOMAIN cache => cache'[u] = cache[u] ]_vars
    /\ [][ ( /\ XCallStep
             /\ cache_used
             /\ x_url' \in DOMAIN cache
             /\ cache[x_url'] = PlaceholderRecord )
             => /\ x_pc' = "returned"
                /\ x_ret' = PlaceholderRecord
                /\ gets' = gets
                /\ cache' = cache ]_vars

\* The first call for the URL failed three times and cached the
\* placeholder; the second call returned it and the URL was not requested
\* again.
C26_Witness ==
    /\ cache_used
    /\ x_pc = "returned"
    /\ calls[x_url] = 2
    /\ gets[x_url] = 3
    /\ x_ret = PlaceholderRecord
    /\ cache[x_url] = PlaceholderRecord

(***************************************************************************)
(* A further property of wait_for_completion (checked under WaitSpec)      *)
(***************************************************************************)
\* C27: wait_for_completion returns a state other than 'complete', 'error',
\* 'failed' and 'cancelled' only with an elapsed time that is at least the
\* deadline; a return before the deadline carries one of the four.
C27_OtherStatesOnlyAtTheDeadline ==
    (w_pc = "done" /\ w_ret.state \notin {"complete", "error", "failed", "cancelled"})
      => w_ret.elapsed >= DeadlineSeconds

\* The deadline branch returned the non-terminal state it fetched.
C27_Witness ==
    /\ w_pc = "done"
    /\ w_ret.state = "running"
    /\ DeadlineSeconds > 0
    /\ w_ret.elapsed >= DeadlineSeconds
    /\ w_final_calls = 1

\* A test-suite path of the report has both the plan tag 'cloud' and the
\* normalised name of the test case among its elements.
QualifiesInReport(qatestcase) ==
    /\ m_xunit_data.parsed
    /\ \E k \in 1..Len(m_xunit_data.suites) :
          LET elems == PathElements(m_xunit_data.suites[k].name)
          IN  /\ \E e \in 1..Len(elems) : Lower(elems[e]) = CloudTag
              /\ \E e \in 1..Len(elems) : elems[e] = TestcaseName(qatestcase)

\* C28: main of report_results_noninteractiveNEW.py writes a wiki result
\* for a test case only if a test-suite path of the report qualifies for it
\* (matching_test_plans is not empty).
C28_WritesOnlyQualifiedTestcases ==
    script = "NEW"
      => \A k \in 1..Len(written) :
            /\ QualifiesInReport(PageRows[written[k].row].testcase)
            /\ match_result.matching_test_plans # <<>>

\* C29: a call of modify_testcase_result calls page.add_result at most
\* once; it returns result_added=True only after that call succeeded, and
\* then with testcase_found=True and a wiki_url; when it returns
\* result_added=False or raises a ValueError nothing was written.
C29_AddedOnlyAfterOneSuccessfulWrite ==
    script = "NEW"
      => /\ Len(written) <= 1
         /\ r_out.result_added
              => /\ r_pc = "returned"
                 /\ Len(written) = 1
                 /\ written[1].ok
                 /\ r_out.testcase_found
                 /\ r_out.wiki_url # NoWikiUrl
         /\ (r_pc = "returned" /\ ~r_out.result_added) => written = <<>>
         /\ (r_pc = "raised" /\ r_out.exc = "ValueError") => written = <<>>

\* page.add_result succeeded: the call returned result_added=True with
\* testcase_found=True and the wiki_url after its one write.
C29_Witness ==
    /\ script = "NEW"
    /\ r_pc = "returned"
    /\ r_out.result_added
    /\ r_out.testcase_found
    /\ r_out.wiki_url # NoWikiUrl
    /\ Len(written) = 1
    /\ written[1].ok

(***************************************************************************)
(* A further property of the two job-level result extractions (checked     *)
(* under OverallSpec)                                                      *)
(***************************************************************************)
\* C30: for every job-status outcome (fetch failure; result absent or null;
\* overall absent, null, 'passed', 'failed' or another string) get_results
\* of tft-wait.py and the 'overall' field of fetch_and_cache_xunit_xml
\* yield the same value.
C30_ExtractionsAgree ==
    (/\ g_results # Unset
     /\ g_overall # Unset
     /\ g_data.kind = "dict" => g_data.run # "null")
      => g_results = g_overall

====
